---- MODULE Spec2Model ----
(***************************************************************************)
(* Meal planner: the suspendable workflow (search / validate / refine /    *)
(* present, then the process_meal sub-graph extract / review / commit),    *)
(* the SSE server that starts and resumes it per session, and the list     *)
(* store the commit stage writes to.                                       *)
(*                                                                         *)
(* Conventions.  A Python str is a sequence of one-character strings.  An  *)
(* Optional value is a sequence of length 0 (None) or 1 (the value).       *)
(***************************************************************************)
EXTENDS Integers, Sequences, FiniteSets, TLC

VARIABLES
    databaseUrl,   \* os.environ has DATABASE_URL (fixed for the process)
    sessions,      \* keys of the module-level dict `sessions`
    objs,          \* the Session objects: objs[sid] = <<>> or <<Session>>
    used,          \* session ids already handed out by uuid4
    execs,         \* running stream_graph_execution generators
    store,         \* the reminders application: a sequence of lists
    lastReq,       \* the last HTTP request and the response it got
    lastEvent,     \* per session: last terminal SSE event of a stream
    hist,          \* observation of what has happened, per session
    requests,      \* resume requests sent so far
    overlaps,      \* resume requests sent while an execution was running
    call,          \* a function of the program called on its own: name and arguments
    result         \* what that call returned

vars == <<databaseUrl, sessions, objs, used, execs, store, lastReq, lastEvent, hist,
          requests, overlaps, call, result>>

(***************************************************************************)
(* Bounds of the model                                                     *)
(***************************************************************************)
MaxRecipes == 3     \* recipes the language model may name in one answer
MaxInFlight == 2    \* stream executions that may overlap
MaxStoreFailures == 1   \* list-store calls that may fail within one commit
MaxRequests == 3    \* resume requests a client sends
MaxOverlaps == 1    \* those of them it sends while an execution runs

SessionIds == {"s1"}

(***************************************************************************)
(* Python str and Optional helpers                                         *)
(***************************************************************************)
None == <<>>
Some(x) == <<x>>
IsNone(o) == Len(o) = 0
Val(o) == o[1]

UpperChars == <<"A","B","C","D","E","F","G","H","I","J","K","L","M",
                "N","O","P","Q","R","S","T","U","V","W","X","Y","Z">>
LowerChars == <<"a","b","c","d","e","f","g","h","i","j","k","l","m",
                "n","o","p","q","r","s","t","u","v","w","x","y","z">>
Digits == <<"0","1","2","3","4","5","6","7","8","9">>

IsDigitChar(c) == \E i \in 1..Len(Digits) : Digits[i] = c
DigitVal(c) == (CHOOSE i \in 1..Len(Digits) : Digits[i] = c) - 1
IsSpaceChar(c) == c \in {" ", "\t", "\n"}

LowerChar(c) ==
    IF \E i \in 1..Len(UpperChars) : UpperChars[i] = c
    THEN LowerChars[CHOOSE i \in 1..Len(UpperChars) : UpperChars[i] = c]
    ELSE c

\* str.lower()
Lower(s) == [i \in 1..Len(s) |-> LowerChar(s[i])]

RECURSIVE LStrip(_)
LStrip(s) == IF s # <<>> /\ IsSpaceChar(Head(s)) THEN LStrip(Tail(s)) ELSE s

RECURSIVE RStrip(_)
RStrip(s) ==
    IF s # <<>> /\ IsSpaceChar(s[Len(s)]) THEN RStrip(SubSeq(s, 1, Len(s) - 1)) ELSE s

\* str.strip()
Strip(s) == RStrip(LStrip(s))

\* str.startswith(p)
StartsWith(s, p) == Len(s) >= Len(p) /\ SubSeq(s, 1, Len(p)) = p

\* str.endswith(p)
EndsWith(s, p) == Len(s) >= Len(p) /\ SubSeq(s, Len(s) - Len(p) + 1, Len(s)) = p

\* p in s
Contains(s, p) ==
    \E i \in 1..(Len(s) - Len(p) + 1) : SubSeq(s, i, i + Len(p) - 1) = p

\* str.replace(p, "") for a non-empty p: leftmost non-overlapping occurrences
RECURSIVE Remove(_, _)
Remove(s, p) ==
    IF Len(s) < Len(p) THEN s
    ELSE IF SubSeq(s, 1, Len(p)) = p THEN Remove(SubSeq(s, Len(p) + 1, Len(s)), p)
    ELSE <<Head(s)>> \o Remove(Tail(s), p)

\* str.replace(c, d) for single characters
ReplaceChar(s, c, d) == [i \in 1..Len(s) |-> IF s[i] = c THEN d ELSE s[i]]

\* str.split() : maximal runs of non-whitespace characters
RECURSIVE SplitWs(_, _)
SplitWs(s, cur) ==
    IF s = <<>> THEN (IF cur = <<>> THEN <<>> ELSE <<cur>>)
    ELSE IF IsSpaceChar(Head(s))
         THEN (IF cur = <<>> THEN <<>> ELSE <<cur>>) \o SplitWs(Tail(s), <<>>)
         ELSE SplitWs(Tail(s), Append(cur, Head(s)))
Split(s) == SplitWs(s, <<>>)

\* the character U+00B2 (superscript two), one of the characters that
\* str.isdigit() accepts and int() rejects
SuperscriptTwo == "sup2"

\* the strings of decimal digits, which int() and Fraction() read
IsDecimal(s) == s # <<>> /\ \A i \in 1..Len(s) : IsDigitChar(s[i])

\* str.isdigit(): decimal digits and the digits that are not decimal
IsDigit(s) == s # <<>> /\ \A i \in 1..Len(s) : IsDigitChar(s[i]) \/ s[i] = SuperscriptTwo

\* value of a digit string
RECURSIVE DigitsVal(_)
DigitsVal(s) ==
    IF s = <<>> THEN 0 ELSE 10 * DigitsVal(SubSeq(s, 1, Len(s) - 1)) + DigitVal(s[Len(s)])

\* int(str): surrounding whitespace and one sign are accepted; anything
\* else raises ValueError, reported here as None.
ParseInt(s) ==
    LET t == Strip(s)
        neg == t # <<>> /\ Head(t) = "-"
        u == IF t # <<>> /\ Head(t) \in {"+", "-"} THEN Tail(t) ELSE t
    IN  IF IsDecimal(u) THEN Some(IF neg THEN 0 - DigitsVal(u) ELSE DigitsVal(u))
        ELSE None

\* the elements of a sequence
Range(s) == {s[i] : i \in 1..Len(s)}

\* list[:n]
Take(s, n) == SubSeq(s, 1, IF Len(s) < n THEN Len(s) ELSE n)

(***************************************************************************)
(* Text constants of the program                                           *)
(***************************************************************************)
HttpPrefix == <<"h","t","t","p",":","/","/">>
HttpsPrefix == <<"h","t","t","p","s",":","/","/">>
PresentInstruction == <<"E","n","t","e","r"," ","a"," ","n","u","m","b","e","r"," ","1","-","5"," ","t","o"," ","s","e","l","e","c","t"," ","a"," ","r","e","c","i","p","e">>
ReviewInstruction == <<"E","n","t","e","r"," ","'","o","k","'"," ","t","o"," ","a","p","p","r","o","v","e"," ","o","r"," ","'","r","e","m","o","v","e"," ","X",","," ","Y",","," ","Z","'"," ","t","o"," ","r","e","m","o","v","e"," ","i","t","e","m","s">>
RemindersInstruction == <<"E","n","t","e","r"," ","l","i","s","t"," ","n","u","m","b","e","r",","," ","n","e","w"," ","l","i","s","t"," ","n","a","m","e",","," ","o","r"," ","'","s","k","i","p","'">>
KwSelectARecipe == <<"s","e","l","e","c","t"," ","a"," ","r","e","c","i","p","e">>
KwRemove == <<"r","e","m","o","v","e">>
KwApprove == <<"a","p","p","r","o","v","e">>
KwListNumber == <<"l","i","s","t"," ","n","u","m","b","e","r">>
KwSkip == <<"s","k","i","p">>
KwRemoveColon == <<"r","e","m","o","v","e",":">>
StrRemoveAll == <<"r","e","m","o","v","e"," ","a","l","l">>
StrOk == <<"o","k">>
StrYes == <<"y","e","s">>
StrNo == <<"n","o">>
StrCancel == <<"c","a","n","c","e","l">>

(***************************************************************************)
(* Inputs the environment may supply                                       *)
(***************************************************************************)
UrlHttp == <<"h","t","t","p",":","/","/","a","/","b">>
UrlHttps == <<"h","t","t","p","s",":","/","/","a">>
UrlFtp == <<"f","t","p",":","/","/","a">>
UrlBare == <<"h","t","t","p","x">>

\* PlanRequest.direct_url (default "")
DirectUrls == {<<>>, UrlHttp, UrlHttps, UrlFtp, UrlBare}

\* ResumeRequest.input
ResumeValues == {<<"1">>, <<"2">>, <<"x">>, KwSkip, <<"r","e","m","o","v","e"," ","1">>}

\* models.Recipe as the language model returns it (description, a free text
\* carried along with the name, is left out); recipe 1 comes without a URL
Recipe(k) == [name |-> <<"R", Digits[k + 1]>>,
              url |-> IF k = 1 THEN <<>> ELSE <<"u", Digits[k + 1]>>]

\* answers of the language model: the first n recipes, n = 0..MaxRecipes
RecipeLists == {[i \in 1..n |-> Recipe(i)] : n \in 0..MaxRecipes}

\* ValidationResult.dish_names
DishLists == {<<>>, <<<<"d">>>>}

\* models.Ingredient
Egg == [name |-> <<"e","g","g">>, amount |-> <<"2">>, unit |-> <<>>]
Milk == [name |-> <<"m","i","l","k">>, amount |-> <<"1">>, unit |-> <<"c","u","p">>]
IngredientLists == {<<>>, <<Egg, Milk>>}

(***************************************************************************)
(* Workflow state (models.MealPlannerState)                                *)
(***************************************************************************)
Nodes == {"search_meals", "parse_meals", "validate_recipes", "refine_search",
          "present_options", "create_meal_from_url",
          "extract_ingredients", "review_ingredients", "add_to_reminders"}

\* the fields of MealPlannerState the stages read or write, and, prefixed
\* h_, what has happened along the run that produced this state
initial_state(direct_url) ==
    [direct_url |-> IF direct_url # <<>> THEN Some(direct_url) ELSE None,
     search_results |-> None,
     meal_options |-> None,
     selected_meal |-> None,
     refinement_count |-> 0,
     refine_dishes |-> None,
     grocery_list |-> None,
     reminders_added |-> None,
     h_refines |-> 0,           \* completed refine_search stages
     h_suspended |-> <<>>,      \* stages that suspended, in order
     h_done |-> {},             \* stages that completed
     h_calls |-> {},            \* external calls issued
     h_failed |-> FALSE,        \* a create_reminder or batch delete call failed
     h_valid |-> None,          \* valid_recipes of the latest validation
     h_list |-> None,           \* list_name the commit stage resolved
     h_log |-> <<>>]            \* the commit's calls from "Handle updates" on

\* truthiness of an Optional list or str
Truthy(o) == ~IsNone(o) /\ Val(o) # <<>>

(***************************************************************************)
(* Routing (nodes/routing.py)                                              *)
(***************************************************************************)
route_by_input_bad(state) ==
    IF Truthy(state.direct_url) /\ StartsWith(Val(state.direct_url), HttpPrefix)
    THEN "create_meal_from_url"
    ELSE "search_meals"

route_by_input(state) ==
    IF Truthy(state.direct_url)
       /\ (\/ StartsWith(Val(state.direct_url), HttpPrefix)
           \/ StartsWith(Val(state.direct_url), HttpsPrefix))
    THEN "create_meal_from_url"
    ELSE "search_meals"

should_refine(state) ==
    IF Truthy(state.refine_dishes) THEN "refine_search" ELSE "present_options"

(***************************************************************************)
(* Search stages (nodes/search.py)                                         *)
(***************************************************************************)
MaxOptions == 5
MinValid == 3
MaxRefinements == 2

\* [MealOption(id=i, ...) for i, recipe in enumerate(recipes[:5], 1)]
MealOptions(recipes) ==
    [i \in 1..Len(Take(recipes, MaxOptions)) |->
        [id |-> i, name |-> recipes[i].name, recipe_url |-> recipes[i].url]]

search_meals(state) == [state EXCEPT !.search_results = Some("results")]

parse_meals(state, recipes) == [state EXCEPT !.meal_options = Some(MealOptions(recipes))]

validate_recipes_bad(state, valid, dish_names) ==
    LET valid_recipes == MealOptions(valid)
    IN  IF Len(valid_recipes) >= MinValid
        THEN [state EXCEPT !.meal_options = Some(valid_recipes),
                          !.h_valid = Some(valid_recipes)]
        ELSE IF state.refinement_count <= MaxRefinements /\ dish_names # <<>>
        THEN [state EXCEPT !.meal_options = Some(valid_recipes),
                          !.refinement_count = state.refinement_count + 1,
                          !.refine_dishes = Some(Take(dish_names, MaxOptions)),
                          !.h_valid = Some(valid_recipes)]
        ELSE [state EXCEPT !.meal_options =
                 IF valid_recipes # <<>> THEN Some(valid_recipes) ELSE state.meal_options,
                          !.h_valid = Some(valid_recipes)]

validate_recipes(state, valid, dish_names) ==
    LET valid_recipes == MealOptions(valid)
    IN  IF Len(valid_recipes) >= MinValid
        THEN [state EXCEPT !.meal_options = Some(valid_recipes),
                          !.h_valid = Some(valid_recipes)]
        ELSE IF state.refinement_count < MaxRefinements /\ dish_names # <<>>
        THEN [state EXCEPT !.meal_options = Some(valid_recipes),
                          !.refinement_count = state.refinement_count + 1,
                          !.refine_dishes = Some(Take(dish_names, MaxOptions)),
                          !.h_valid = Some(valid_recipes)]
        ELSE [state EXCEPT !.meal_options =
                 IF valid_recipes # <<>> THEN Some(valid_recipes) ELSE state.meal_options,
                          !.h_valid = Some(valid_recipes)]

\* a loop that keeps every candidate
RECURSIVE Dedup_bad(_, _)
Dedup_bad(recipes, seen_urls) ==
    IF recipes = <<>> THEN <<>>
    ELSE <<Head(recipes)>> \o Dedup_bad(Tail(recipes), seen_urls)

\* the de-duplication loop of refine_search: first occurrence of a URL wins,
\* an empty URL is dropped
RECURSIVE Dedup(_, _)
Dedup(recipes, seen_urls) ==
    IF recipes = <<>> THEN <<>>
    ELSE LET r == Head(recipes)
         IN  IF r.recipe_url # <<>> /\ r.recipe_url \notin seen_urls
             THEN <<r>> \o Dedup(Tail(recipes), seen_urls \cup {r.recipe_url})
             ELSE Dedup(Tail(recipes), seen_urls)

refine_search(state, recipes) ==
    LET existing_valid == IF IsNone(state.meal_options) THEN <<>> ELSE Val(state.meal_options)
        all_recipes == existing_valid \o
            [i \in 1..Len(recipes) |->
                [id |-> 0, name |-> recipes[i].name, recipe_url |-> recipes[i].url]]
        unique_recipes == Take(Dedup(all_recipes, {}), MaxOptions)
        reindexed == [i \in 1..Len(unique_recipes) |-> [unique_recipes[i] EXCEPT !.id = i]]
    IN  [state EXCEPT !.meal_options = Some(reindexed),
                      !.search_results = Some("results"),
                      !.refine_dishes = None,
                      !.h_refines = @ + 1]

(***************************************************************************)
(* Processing stages (nodes/processing.py)                                 *)
(***************************************************************************)
\* a URL stage that selects the candidate only when the page was fetched
create_meal_from_url_bad(state, fetched) ==
    LET url == Val(state.direct_url)
        meal == [id |-> 1,
                 name |-> IF fetched THEN <<"T">> ELSE <<"F">>,
                 recipe_url |-> url]
    IN  [state EXCEPT !.meal_options = Some(<<meal>>),
                      !.selected_meal = IF fetched THEN Some(meal) ELSE @]

\* fetched: the page was retrieved and a title extracted; otherwise the
\* except branch derives the title from the URL path
create_meal_from_url(state, fetched) ==
    LET url == Val(state.direct_url)
        meal == [id |-> 1,
                 name |-> IF fetched THEN <<"T">> ELSE <<"F">>,
                 recipe_url |-> url]
    IN  [state EXCEPT !.meal_options = Some(<<meal>>), !.selected_meal = Some(meal)]

\* the 0-based index present_options reads from meal_options
SelectionIndex(n, user_selection) ==
    LET selection_num == ParseInt(user_selection)
    IN  IF ~IsNone(selection_num) /\ 1 <= Val(selection_num) /\ Val(selection_num) <= n
        THEN Val(selection_num) - 1
        ELSE 0

\* meal_options[k] raises IndexError, which no except clause of the stage catches
present_options_raises(state, user_selection) ==
    LET meal_options == Val(state.meal_options)
    IN  SelectionIndex(Len(meal_options), user_selection) >= Len(meal_options)

present_options(state, user_selection) ==
    LET meal_options == Val(state.meal_options)
    IN  [state EXCEPT !.selected_meal =
            Some(meal_options[SelectionIndex(Len(meal_options), user_selection) + 1])]

\* the early returns of extract_ingredients, before any fetch
extract_skips(state) ==
    IsNone(state.selected_meal) \/ Val(state.selected_meal).recipe_url = <<>>

\* the update {"grocery_list": ..., "error": ...}: MealPlannerState declares
\* no error key, so only grocery_list reaches the state
extract_ingredients(state, ingredients) == [state EXCEPT !.grocery_list = Some(ingredients)]

\* the update of the except branch around the page fetch:
\* {"grocery_list": [], "error": error_msg}
FetchFailedUpdate(recipe_url) ==
    [grocery_list |-> Some(<<>>),
     error |-> Some(<<"F","a","i","l","e","d"," ","t","o"," ","f","e","t","c","h"," ","r","e","c","i","p","e"," ","f","r","o","m"," ">> \o recipe_url \o <<":"," ">>)]

\* the runtime writes an update into the state: the keys the state declares
\* take the update's values, any other key of the update is left out
ApplyUpdate(state, update) ==
    [k \in DOMAIN state |-> IF k \in DOMAIN update THEN update[k] ELSE state[k]]

RECURSIVE KeepItems(_, _, _, _)
KeepItems(items, idx, indices_to_remove, names_to_remove) ==
    IF items = <<>> THEN <<>>
    ELSE (IF idx \in indices_to_remove \/ Lower(Head(items).name) \in names_to_remove
          THEN <<>> ELSE <<Head(items)>>)
         \o KeepItems(Tail(items), idx + 1, indices_to_remove, names_to_remove)

\* the tokens of "remove ..." : remove_part.replace(",", " ").split()
RemoveParts(user_input_str) ==
    Split(ReplaceChar(Strip(Remove(Remove(user_input_str, KwRemoveColon), KwRemove)), ",", " "))

\* int(part) raises ValueError for a part that isdigit() accepts and int()
\* does not; no except clause of the stage catches it
review_ingredients_raises(user_input) ==
    LET user_input_str == Lower(Strip(user_input))
    IN  /\ user_input_str \notin {StrOk, StrYes, <<>>, StrRemoveAll}
        /\ StartsWith(user_input_str, KwRemove)
        /\ \E part \in Range(RemoveParts(user_input_str)) : IsDigit(part) /\ ~IsDecimal(part)

\* a review that drops every item when it cannot parse the answer
review_ingredients_bad(state, user_input) ==
    LET ingredients == Val(state.grocery_list)
        user_input_str == Lower(Strip(user_input))
        parts == RemoveParts(user_input_str)
        indices_to_remove == {DigitsVal(parts[k]) : k \in {j \in 1..Len(parts) : IsDigit(parts[j])}}
        names_to_remove == {Lower(parts[k]) : k \in {j \in 1..Len(parts) : ~IsDigit(parts[j])}}
    IN  IF user_input_str \in {StrOk, StrYes, <<>>} THEN state
        ELSE IF user_input_str = StrRemoveAll THEN [state EXCEPT !.grocery_list = Some(<<>>)]
        ELSE IF StartsWith(user_input_str, KwRemove)
        THEN [state EXCEPT !.grocery_list =
                 Some(KeepItems(ingredients, 1, indices_to_remove, names_to_remove))]
        ELSE [state EXCEPT !.grocery_list = Some(<<>>)]

review_ingredients(state, user_input) ==
    LET ingredients == Val(state.grocery_list)
        user_input_str == Lower(Strip(user_input))
        parts == RemoveParts(user_input_str)
        indices_to_remove == {DigitsVal(parts[k]) : k \in {j \in 1..Len(parts) : IsDigit(parts[j])}}
        names_to_remove == {Lower(parts[k]) : k \in {j \in 1..Len(parts) : ~IsDigit(parts[j])}}
    IN  IF user_input_str \in {StrOk, StrYes, <<>>} THEN state
        ELSE IF user_input_str = StrRemoveAll THEN [state EXCEPT !.grocery_list = Some(<<>>)]
        ELSE IF StartsWith(user_input_str, KwRemove)
        THEN [state EXCEPT !.grocery_list =
                 Some(KeepItems(ingredients, 1, indices_to_remove, names_to_remove))]
        ELSE state

(***************************************************************************)
(* Collation (collate.py).  A float is held as an exact ratio n/d, d > 0.  *)
(***************************************************************************)
\* normalize_name
normalize_name(name) ==
    LET n == Strip(Lower(name))
        cut(k) == SubSeq(n, 1, Len(n) - k)
    IN  IF EndsWith(n, <<"o","e","s">>) THEN cut(2)
        ELSE IF EndsWith(n, <<"i","e","s">>) THEN cut(3) \o <<"y">>
        ELSE IF EndsWith(n, <<"e","s">>) /\ ~EndsWith(n, <<"s","s","e","s">>) THEN cut(2)
        ELSE IF EndsWith(n, <<"s">>) /\ ~EndsWith(n, <<"s","s">>) THEN cut(1)
        ELSE n

IsAmountChar(c) == IsDigitChar(c) \/ c \in {".", "/", "-"}
IsRangeChar(c) == IsDigitChar(c) \/ c \in {".", "/"}

\* length of the longest prefix of s whose characters satisfy the class
RECURSIVE RunAmount(_)
RunAmount(s) == IF s # <<>> /\ IsAmountChar(Head(s)) THEN 1 + RunAmount(Tail(s)) ELSE 0
RECURSIVE RunRange(_)
RunRange(s) == IF s # <<>> /\ IsRangeChar(Head(s)) THEN 1 + RunRange(Tail(s)) ELSE 0
RECURSIVE RunSpace(_)
RunSpace(s) == IF s # <<>> /\ IsSpaceChar(Head(s)) THEN 1 + RunSpace(Tail(s)) ELSE 0

Drop(s, k) == SubSeq(s, k + 1, Len(s))

\* length matched by (?:\s*-\s*[\d./]+)? at the head of s (0 when it does not match)
RangeTail(s) ==
    LET a == RunSpace(s)
        s1 == Drop(s, a)
        b == IF s1 # <<>> /\ Head(s1) = "-" THEN RunSpace(Tail(s1)) ELSE 0
        s2 == IF s1 # <<>> THEN Drop(Tail(s1), b) ELSE <<>>
        c == RunRange(s2)
    IN  IF s1 # <<>> /\ Head(s1) = "-" /\ c > 0 THEN a + 1 + b + c ELSE 0

\* ^([\d./\-]+(?:\s*-\s*[\d./]+)?)\s*(.*)$ applied to the text in parentheses
SplitAmountUnit(inside) ==
    LET run == RunAmount(inside)
        more == RangeTail(Drop(inside, run))
    IN  IF run = 0 THEN <<inside, <<>>>>
        ELSE <<Strip(SubSeq(inside, 1, run + more)), Strip(Drop(inside, run + more))>>

\* ^(.+?)\s*\(([^)]+)\)\s*$ : position of the opening parenthesis the lazy
\* name group stops at, or 0 when the text does not match
OpenParen(t) ==
    LET ok(p) == /\ t[p] = "("
                 /\ p + 1 <= Len(t) - 1
                 /\ \A j \in (p + 1)..(Len(t) - 1) : t[j] # ")"
        cand == {p \in 2..Len(t) : ok(p)}
    IN  IF t # <<>> /\ t[Len(t)] = ")" /\ cand # {}
        THEN CHOOSE p \in cand : \A q \in cand : p <= q
        ELSE 0

\* parse_reminder_text: <<name, amount, unit>>
parse_reminder_text(text) ==
    LET t == RStrip(text)
        p == OpenParen(t)
        name == Strip(SubSeq(t, 1, p - 1))
        inside_parens == Strip(SubSeq(t, p + 1, Len(t) - 1))
        au == SplitAmountUnit(inside_parens)
    IN  IF p = 0 THEN <<Strip(text), <<>>, <<>>>>
        ELSE IF Contains(inside_parens, <<"+">>) THEN <<name, inside_parens, <<>>>>
        ELSE <<name, au[1], au[2]>>

RECURSIVE Pow10(_)
Pow10(k) == IF k <= 0 THEN 1 ELSE 10 * Pow10(k - 1)

\* position of the first occurrence of character c in s, or 0
FirstIndex(s, c) ==
    IF \E i \in 1..Len(s) : s[i] = c
    THEN CHOOSE i \in 1..Len(s) : s[i] = c /\ \A j \in 1..(i - 1) : s[j] # c
    ELSE 0

\* Fraction(str) for the forms  [sign] digits [ "/" digits | "." digits ]  and
\* [sign] "." digits ; None stands for ValueError and ZeroDivisionError.
\* float(str) accepts nothing more over the alphabet of digits . / - +
ParseNumber(str) ==
    LET t == Strip(str)
        neg == t # <<>> /\ Head(t) = "-"
        u == IF t # <<>> /\ Head(t) \in {"+", "-"} THEN Tail(t) ELSE t
        sl == FirstIndex(u, "/")
        dt == FirstIndex(u, ".")
        sgn == IF neg THEN 0 - 1 ELSE 1
        num == SubSeq(u, 1, sl - 1)
        den == Drop(u, sl)
        ip == SubSeq(u, 1, dt - 1)
        fp == Drop(u, dt)
    IN  IF sl > 0
        THEN IF IsDecimal(num) /\ IsDecimal(den) /\ DigitsVal(den) # 0
             THEN Some([n |-> sgn * DigitsVal(num), d |-> DigitsVal(den)])
             ELSE None
        ELSE IF dt > 0
        THEN IF /\ (ip = <<>> \/ IsDecimal(ip)) /\ (fp = <<>> \/ IsDecimal(fp))
                /\ (ip # <<>> \/ fp # <<>>) /\ Len(fp) <= 5
             THEN Some([n |-> sgn * (DigitsVal(ip) * Pow10(Len(fp)) + DigitsVal(fp)),
                        d |-> Pow10(Len(fp))])
             ELSE None
        ELSE IF IsDecimal(u) THEN Some([n |-> sgn * DigitsVal(u), d |-> 1])
        ELSE None

\* parse_amount
parse_amount(amount_str) ==
    LET dash == FirstIndex(amount_str, "-")
        first == IF dash > 1 THEN Strip(SubSeq(amount_str, 1, dash - 1)) ELSE amount_str
    IN  IF amount_str = <<>> THEN None ELSE ParseNumber(first)

\* str(int) for a natural number
RECURSIVE NatStr(_)
NatStr(k) == IF k < 10 THEN <<Digits[k + 1]>> ELSE NatStr(k \div 10) \o <<Digits[(k % 10) + 1]>>
IntStr(k) == IF k < 0 THEN <<"-">> \o NatStr(0 - k) ELSE NatStr(k)

RECURSIVE Gcd(_, _)
Gcd(a, b) == IF b = 0 THEN a ELSE Gcd(b, a % b)

\* decimal exponent e of a positive ratio in lowest terms: 10^e <= n/d < 10^(e+1)
RECURSIVE Exp10(_, _)
Exp10(n, d) ==
    IF n >= 10 * d THEN 1 + Exp10(n, 10 * d)
    ELSE IF n < d THEN Exp10(10 * n, d) - 1
    ELSE 0

\* the two significant digits of f"{value:.2g}": <<digits 10..99, exponent>>.
\* A value exactly half-way between two candidates goes to the even one, as
\* it does for a float that holds the ratio exactly (denominator a power of
\* two); for other half-way ratios the float's binary error decides.
TwoDigits(n, d) ==
    LET e == Exp10(n, d)
        \* n/d scaled into [10, 100) is sn/sd
        sn == IF e - 1 >= 0 THEN n ELSE n * Pow10(1 - e)
        sd == IF e - 1 >= 0 THEN d * Pow10(e - 1) ELSE d
        q == sn \div sd
        rem2 == 2 * (sn % sd)
        r == IF rem2 > sd \/ (rem2 = sd /\ q % 2 = 1) THEN q + 1 ELSE q
    IN  IF r = 100 THEN <<10, e + 1>> ELSE <<r, e>>

RECURSIVE Zeros(_)
Zeros(k) == IF k <= 0 THEN <<>> ELSE <<"0">> \o Zeros(k - 1)

\* f"{value:.2g}" for a positive ratio
Format2g(n, d) ==
    LET te == TwoDigits(n, d)
        hi == Digits[(te[1] \div 10) + 1]
        lo == Digits[(te[1] % 10) + 1]
        e == te[2]
        frac == IF lo = "0" THEN <<>> ELSE <<lo>>
    IN  IF e >= 2 \/ e < 0 - 4
        THEN <<hi>> \o (IF frac = <<>> THEN <<>> ELSE <<".">> \o frac)
             \o <<"e", IF e < 0 THEN "-" ELSE "+">>
             \o (IF e < 10 /\ e > 0 - 10 THEN <<"0">> ELSE <<>>)
             \o NatStr(IF e < 0 THEN 0 - e ELSE e)
        ELSE IF e = 1 THEN <<hi, lo>>
        ELSE IF e = 0 THEN <<hi>> \o (IF frac = <<>> THEN <<>> ELSE <<".">> \o frac)
        ELSE <<"0", ".">> \o Zeros(0 - e - 1) \o <<hi>> \o frac

\* format_amount
format_amount(value) ==
    IF value.n % value.d = 0 THEN IntStr(value.n \div value.d)
    ELSE LET g == Gcd(IF value.n < 0 THEN 0 - value.n ELSE value.n, value.d)
         IN  IF value.n < 0 THEN <<"-">> \o Format2g((0 - value.n) \div g, value.d \div g)
             ELSE Format2g(value.n \div g, value.d \div g)

\* f"{amt} {unit}".strip() if unit else amt
AmountPart(amt, unit) == IF unit # <<>> THEN Strip(amt \o <<" ">> \o unit) ELSE amt

\* a combination that puts the new item's part first
combine_amounts_bad(amt1, unit1, amt2, unit2) ==
    LET val1 == parse_amount(amt1)
        val2 == parse_amount(amt2)
    IN  IF Strip(Lower(unit1)) = Strip(Lower(unit2)) /\ ~IsNone(val1) /\ ~IsNone(val2)
        THEN <<format_amount([n |-> Val(val1).n * Val(val2).d + Val(val2).n * Val(val1).d,
                              d |-> Val(val1).d * Val(val2).d]), unit1>>
        ELSE <<AmountPart(amt2, unit2) \o <<" ","+"," ">> \o AmountPart(amt1, unit1), <<>>>>

\* combine_amounts: <<amount, unit>>
combine_amounts(amt1, unit1, amt2, unit2) ==
    LET val1 == parse_amount(amt1)
        val2 == parse_amount(amt2)
    IN  IF Strip(Lower(unit1)) = Strip(Lower(unit2)) /\ ~IsNone(val1) /\ ~IsNone(val2)
        THEN <<format_amount([n |-> Val(val1).n * Val(val2).d + Val(val2).n * Val(val1).d,
                              d |-> Val(val1).d * Val(val2).d]), unit1>>
        ELSE <<AmountPart(amt1, unit1) \o <<" ","+"," ">> \o AmountPart(amt2, unit2), <<>>>>

\* a lookup whose entries stay after they matched
LookupIndex_bad(existing, norm_name, taken) ==
    LET same == {i \in 1..Len(existing) :
                    normalize_name(parse_reminder_text(existing[i])[1]) = norm_name}
    IN  IF same = {} THEN 0 ELSE CHOOSE i \in same : \A j \in same : i <= j

\* index in `existing` of the entry the lookup holds for norm_name: the first
\* text with that normalized name, unless an earlier new item took it
LookupIndex(existing, norm_name, taken) ==
    LET same == {i \in 1..Len(existing) :
                    normalize_name(parse_reminder_text(existing[i])[1]) = norm_name}
        first == IF same = {} THEN 0 ELSE CHOOSE i \in same : \A j \in same : i <= j
    IN  IF first \in taken THEN 0 ELSE first

\* a round that puts a matched item after the later ones
CollateUpdate_bad(rest, old_text, name, comb) ==
    [rest EXCEPT !.to_update =
        @ \o <<[old_text |-> old_text,
                combined |-> [name |-> name, amount |-> comb[1], unit |-> comb[2]]]>>]

\* "Combine amounts" and items_to_update.append((original_text, combined_item))
CollateUpdate(rest, old_text, name, comb) ==
    [rest EXCEPT !.to_update =
        <<[old_text |-> old_text,
           combined |-> [name |-> name, amount |-> comb[1], unit |-> comb[2]]]>> \o @]

\* the branch "if norm_name in existing_lookup" for the entry orig parsed
\* from old_text
CollateMatch(rest, old_text, orig, item) ==
    CollateUpdate(rest, old_text, orig[1],
                  combine_amounts(orig[2], orig[3], item.amount, item.unit))

\* one round of the loop over new_items, k being the index of the existing
\* entry the lookup holds for the item (0: none); rest is what the later
\* rounds produce
CollateItem(rest, existing, item, k) ==
    IF k = 0 THEN [rest EXCEPT !.to_add = <<item>> \o @]
    ELSE CollateMatch(rest, existing[k], parse_reminder_text(existing[k]), item)

\* the loop over new_items: [to_add, to_update]
RECURSIVE CollateLoop(_, _, _)
CollateFrom(existing, new_items, taken, k) ==
    CollateItem(CollateLoop(existing, Tail(new_items), IF k = 0 THEN taken ELSE taken \cup {k}),
                existing, Head(new_items), k)

CollateLoop(existing, new_items, taken) ==
    IF new_items = <<>> THEN [to_add |-> <<>>, to_update |-> <<>>]
    ELSE CollateFrom(existing, new_items, taken,
                     LookupIndex(existing, normalize_name(Head(new_items).name), taken))

collate_ingredients(existing, new_items) == CollateLoop(existing, new_items, {})

(***************************************************************************)
(* The reminders application (reminders.py) and the commit stage           *)
(* (nodes/reminders_node.py)                                               *)
(***************************************************************************)
ListG == <<"g">>
\* the reminders application when the server starts: one list holding "eggs (1)"
InitialStore == <<[name |-> ListG, items |-> <<<<"e","g","g","s"," ","(","1",")">>>>]>>

\* index of the first list called name, or 0
ListIndex(st, name) ==
    IF \E i \in 1..Len(st) : st[i].name = name
    THEN CHOOSE i \in 1..Len(st) : st[i].name = name /\ \A j \in 1..(i - 1) : st[j].name # name
    ELSE 0

\* get_all_lists: the names, or [] when the call fails
get_all_lists(st, ok) == IF ok THEN [i \in 1..Len(st) |-> st[i].name] ELSE <<>>

\* get_reminders: the texts as the proxy returns them, or [] when the call fails
get_reminders(st, name, ok) ==
    IF ok /\ ListIndex(st, name) # 0 THEN st[ListIndex(st, name)].items ELSE <<>>

RECURSIVE Without(_, _)
Without(items, texts) ==
    IF items = <<>> THEN <<>>
    ELSE (IF Head(items) \in texts THEN <<>> ELSE <<Head(items)>>) \o Without(Tail(items), texts)

\* delete_reminders_batch, when it succeeds
delete_reminders_batch(st, name, texts) ==
    IF ListIndex(st, name) = 0 THEN st
    ELSE [st EXCEPT ![ListIndex(st, name)].items = Without(@, Range(texts))]

\* create_reminder, when it succeeds
create_reminder(st, name, text) ==
    [st EXCEPT ![ListIndex(st, name)].items = Append(@, text)]

\* format_reminder_item
format_reminder_item(item) ==
    IF item.unit # <<>>
    THEN item.name \o <<" ", "(">> \o item.amount \o <<" ">> \o item.unit \o <<")">>
    ELSE item.name \o <<" ", "(">> \o item.amount \o <<")">>

\* skip tokens compared without lowercasing
reminders_skips_bad(list_input) ==
    Strip(list_input) \in {KwSkip, StrNo, StrCancel, <<>>}

\* the skip tokens of the commit stage
reminders_skips(list_input) ==
    Lower(Strip(list_input)) \in {KwSkip, StrNo, StrCancel, <<>>}

\* int(list_input_str) raises ValueError for a value that isdigit() accepts
\* and int() does not; no except clause of the stage catches it
add_to_reminders_raises(list_input) ==
    /\ ~reminders_skips(list_input)
    /\ IsDigit(Strip(list_input))
    /\ ~IsDecimal(Strip(list_input))

\* "Determine list name"
list_name_of(list_input, existing_lists) ==
    LET list_input_str == Strip(list_input)
        idx == DigitsVal(list_input_str) - 1
    IN  IF IsDigit(list_input_str) /\ 0 <= idx /\ idx < Len(existing_lists)
        THEN existing_lists[idx + 1]
        ELSE list_input_str

\* the create_reminder calls of one commit, in order; call k fails when k
\* is in fail or the list is missing
RECURSIVE CreateAll(_, _, _, _, _)
CreateAll(st, name, texts, k, fail) ==
    IF texts = <<>> THEN st
    ELSE CreateAll(IF k \in fail \/ ListIndex(st, name) = 0 THEN st
                   ELSE create_reminder(st, name, Head(texts)),
                   name, Tail(texts), k + 1, fail)

\* outcomes of the list-store calls of one commit that issues up to n
\* create_reminder calls: which calls fail, at most maxFailures of them
StoreOutcomes(n, maxFailures) ==
    {o \in [exists_ok : BOOLEAN, create_ok : BOOLEAN, read_ok : BOOLEAN,
            delete_ok : BOOLEAN, fail : SUBSET (1..n)] :
        Cardinality({k \in {"exists_ok", "create_ok", "read_ok", "delete_ok"} : ~o[k]})
            + Cardinality(o.fail) <= maxFailures}

\* one call to the reminders module: its name, the texts it was given (or,
\* for get_reminders, returned) and the loop of the stage that issued it
Call(op, texts, kind) == [op |-> op, texts |-> texts, kind |-> kind]

\* old_texts = [old_text for old_text, _ in items_to_update]
OldTexts(to_update) == [k \in 1..Len(to_update) |-> to_update[k].old_text]

\* a commit stage that inserts first and removes the superseded entries last
UpdateCalls_bad(col) ==
    [k \in 1..Len(col.to_update) |->
          Call("create_reminder", <<format_reminder_item(col.to_update[k].combined)>>, "update")]
    \o [k \in 1..Len(col.to_add) |->
          Call("create_reminder", <<format_reminder_item(col.to_add[k])>>, "add")]
    \o (IF col.to_update # <<>>
        THEN <<Call("delete_reminders_batch", OldTexts(col.to_update), "update")>>
        ELSE <<>>)

\* the calls of add_to_reminders from "Handle updates" on, in program order
UpdateCalls(col) ==
    (IF col.to_update # <<>>
     THEN <<Call("delete_reminders_batch", OldTexts(col.to_update), "update")>>
     ELSE <<>>)
    \o [k \in 1..Len(col.to_update) |->
          Call("create_reminder", <<format_reminder_item(col.to_update[k].combined)>>, "update")]
    \o [k \in 1..Len(col.to_add) |->
          Call("create_reminder", <<format_reminder_item(col.to_add[k])>>, "add")]

\* add_to_reminders from "Handle updates" on: [store, reminders_added, calls,
\* failed, list_name, log].  st1 is the store once the list exists, col the result of
\* collate_ingredients; failed: failed_items is not empty or the batch delete
\* returned False
CommitItems(st1, list_name, ext, is_new_list, col) ==
    [store |->
        CreateAll(IF col.to_update # <<>> /\ ext.delete_ok
                  THEN delete_reminders_batch(st1, list_name,
                          [k \in 1..Len(col.to_update) |-> col.to_update[k].old_text])
                  ELSE st1,
                  list_name,
                  [k \in 1..Len(col.to_update) |-> format_reminder_item(col.to_update[k].combined)]
                  \o [k \in 1..Len(col.to_add) |-> format_reminder_item(col.to_add[k])],
                  1, ext.fail),
     reminders_added |-> TRUE, list_name |-> Some(list_name),
     log |-> UpdateCalls(col),
     failed |-> \/ col.to_update # <<>> /\ ~ext.delete_ok
                \/ \E k \in ext.fail : k <= Len(col.to_update) + Len(col.to_add),
     calls |-> {"get_all_lists", "list_exists", "create_reminder"}
               \cup (IF is_new_list THEN {"create_list"} ELSE {"get_reminders"})
               \cup (IF col.to_update # <<>> THEN {"delete_reminders_batch"} ELSE {})]

\* add_to_reminders from "Ensure list exists" on
CommitList(st, ingredients, list_name, ext, is_new_list) ==
    IF is_new_list /\ ~ext.create_ok
    THEN [store |-> st, reminders_added |-> FALSE, failed |-> FALSE,
          list_name |-> Some(list_name), log |-> <<>>,
          calls |-> {"get_all_lists", "list_exists", "create_list"}]
    ELSE CommitItems(IF is_new_list THEN Append(st, [name |-> list_name, items |-> <<>>]) ELSE st,
                     list_name, ext, is_new_list,
                     collate_ingredients(IF is_new_list THEN <<>>
                                         ELSE get_reminders(st, list_name, ext.read_ok),
                                         ingredients))

\* is_new_list = not list_exists(list_name); list_exists is False on an error
CommitTo(st, ingredients, list_name, ext) ==
    CommitList(st, ingredients, list_name, ext,
               ~(ext.exists_ok /\ ListIndex(st, list_name) # 0))

\* a commit stage that writes to the first list whatever the answer is
add_to_reminders_bad(st, ingredients, list_input, existing_lists, ext) ==
    CommitTo(st, ingredients, list_name_of(<<"1">>, existing_lists), ext)

\* add_to_reminders after the interrupt returned list_input:
\* [store, reminders_added, calls, failed, list_name, log]
add_to_reminders(st, ingredients, list_input, existing_lists, ext) ==
    IF reminders_skips(list_input)
    THEN [store |-> st, reminders_added |-> FALSE, failed |-> FALSE,
          list_name |-> None, log |-> <<>>, calls |-> {"get_all_lists"}]
    ELSE CommitTo(st, ingredients, list_name_of(list_input, existing_lists), ext)

(***************************************************************************)
(* The compiled graph (meal_planner.py) and its checkpoints                *)
(***************************************************************************)
SubgraphNodes == {"extract_ingredients", "review_ingredients", "add_to_reminders"}

\* a graph whose URL entry leads into candidate selection
EdgeFrom_bad(node) ==
    CASE node = "search_meals" -> "parse_meals"
      [] node = "parse_meals" -> "validate_recipes"
      [] node = "refine_search" -> "validate_recipes"
      [] node = "present_options" -> "extract_ingredients"
      [] node = "create_meal_from_url" -> "present_options"
      [] node = "extract_ingredients" -> "review_ingredients"
      [] node = "review_ingredients" -> "add_to_reminders"
      [] node = "add_to_reminders" -> "END"

\* the edges of build_meal_processing_subgraph and build_meal_planner_graph
\* that carry no condition; "END" is the end of the parent graph
EdgeFrom(node) ==
    CASE node = "search_meals" -> "parse_meals"
      [] node = "parse_meals" -> "validate_recipes"
      [] node = "refine_search" -> "validate_recipes"
      [] node = "present_options" -> "extract_ingredients"
      [] node = "create_meal_from_url" -> "extract_ingredients"
      [] node = "extract_ingredients" -> "review_ingredients"
      [] node = "review_ingredients" -> "add_to_reminders"
      [] node = "add_to_reminders" -> "END"

\* the node of the parent graph a stage runs in (state.next[0] of the server)
ParentNode(node) == IF node \in SubgraphNodes THEN "process_meal" ELSE node

\* get_checkpointer(): a MemorySaver unless DATABASE_URL is set, else None
\* (the graph is then compiled without a checkpointer).  A saver is the
\* Optional latest checkpoint of the session's thread.
get_checkpointer(st0, entry) ==
    IF databaseUrl THEN None
    ELSE Some([state |-> st0, next |-> entry, intr |-> None])

\* the value a stage passes to interrupt()
InterruptValue(node, state, existing_lists) ==
    CASE node = "present_options" ->
            [instruction |-> PresentInstruction, has_prompt |-> TRUE,
             options |-> Val(state.meal_options), ingredients |-> <<>>,
             existing_lists |-> <<>>, items |-> <<>>]
      [] node = "review_ingredients" ->
            [instruction |-> ReviewInstruction, has_prompt |-> TRUE,
             options |-> <<>>, ingredients |-> Val(state.grocery_list),
             existing_lists |-> <<>>, items |-> <<>>]
      [] node = "add_to_reminders" ->
            [instruction |-> RemindersInstruction, has_prompt |-> FALSE,
             options |-> <<>>, ingredients |-> <<>>,
             existing_lists |-> existing_lists, items |-> Val(state.grocery_list)]

\* the keys of MealPlannerState, without the h_ observations
StateKeys == {"direct_url", "search_results", "meal_options", "selected_meal",
              "refinement_count", "refine_dishes", "grocery_list", "reminders_added"}
Values(state) == [k \in StateKeys |-> state[k]]

(***************************************************************************)
(* Server (meal_planner_server.py)                                         *)
(***************************************************************************)
\* class Session: the compiled graph with its saver, and the completed flag
Session(st0, entry) == [completed |-> FALSE, saver |-> get_checkpointer(st0, entry)]

Slots == 1..MaxInFlight
FreeSlots == {i \in Slots : IsNone(execs[i])}
Running(sid) == {i \in Slots : ~IsNone(execs[i]) /\ Val(execs[i]).sid = sid}

\* a Session object lives while the dict or a running generator refers to it
Reachable(objs1, sessions1, execs1) ==
    [s \in SessionIds |->
        IF s \in sessions1 \/ \E i \in Slots : ~IsNone(execs1[i]) /\ Val(execs1[i]).sid = s
        THEN objs1[s] ELSE None]

\* the latest checkpoint of a session's thread, if there is one to read
Checkpoint(sid) == IF IsNone(objs[sid]) THEN None ELSE Val(objs[sid]).saver

HasPending(sid) == ~IsNone(Checkpoint(sid)) /\ ~IsNone(Val(Checkpoint(sid)).intr)

\* the interrupt classification inlined in stream_graph_execution
EventFor(next_node, intr) ==
    LET instruction == IF IsNone(intr) THEN <<>> ELSE Lower(Val(intr).instruction)
    IN  IF next_node = "present_options" \/ Contains(instruction, KwSelectARecipe)
        THEN "meal_options"
        ELSE IF Contains(instruction, KwRemove) \/ Contains(instruction, KwApprove)
        THEN "ingredient_review"
        ELSE IF Contains(instruction, KwListNumber) \/ Contains(instruction, KwSkip)
        THEN "reminders_prompt"
        ELSE "interrupt"

\* the last event of a stream; an error event comes with the stage that raised
\* ("-": none did)
Event(type, stage) == [event |-> type, stage |-> stage]

\* input: ResumeRequest.input of a resume request
NoRequest == [op |-> "none", sid |-> "-", code |-> 0, input |-> None,
              pending |-> FALSE, running |-> FALSE, completed |-> FALSE]

NoHist == [repeated |-> {},        \* external calls issued again by a resume
           unsolicited |-> FALSE,  \* a resume that found nothing pending wrote
           completed |-> None,     \* the state values when completion was reported
           deleted |-> None,       \* the checkpoint delete_session should leave
           crashed |-> None,       \* the pending checkpoint at the process loss
           stream |-> None]        \* the event types of the latest stream that ended

\* sse_event(event_type, data), the data left out but for the node of a
\* status event
SseEvent(type, node) == <<type, node>>

\* the types of a sequence of events, a run of status events counted once
RECURSIVE Types(_)
Types(events) ==
    IF events = <<>> THEN <<>>
    ELSE IF Len(events) > 1 /\ events[1][1] = "status" /\ events[2][1] = "status"
    THEN Types(Tail(events))
    ELSE <<events[1][1]>> \o Types(Tail(events))

\* what a stream has sent so far is kept as Types of its events
Sent(sent, events) ==
    IF sent # <<>> /\ events # <<>> /\ sent[Len(sent)] = "status" /\ events[1][1] = "status"
    THEN sent \o Tail(Types(events))
    ELSE sent \o Types(events)

\* the keys of NODE_MESSAGES
NODE_MESSAGES == Nodes \cup {"process_meal"}

\* the status event for the on_chain_start event of the stage execution e
\* is at (that of process_meal goes before those of the sub-graph's stages)
StatusEvents(e) ==
    IF e.pc \in NODE_MESSAGES THEN <<SseEvent("status", e.pc)>> ELSE <<>>

\* a completion that sends the grocery list after the complete event
CompletionEvents_bad(values) ==
    <<SseEvent("complete", "-")>>
    \o (IF Truthy(values.grocery_list) THEN <<SseEvent("grocery_list", "-")>> ELSE <<>>)

\* the events of the branch "Graph completed"
CompletionEvents(values) ==
    (IF Truthy(values.grocery_list) THEN <<SseEvent("grocery_list", "-")>> ELSE <<>>)
    \o <<SseEvent("complete", "-")>>

\* the stream of execution e ended with the events last
StreamOf(e, last) == Some([plan |-> ~e.resumed, types |-> Sent(e.sent, last)])

\* no function is called on its own while the server runs
NoCall == [op |-> "none"]

Init ==
    /\ databaseUrl \in BOOLEAN
    /\ sessions = {}
    /\ objs = [s \in SessionIds |-> None]
    /\ used = {}
    /\ execs = [i \in Slots |-> None]
    /\ store = InitialStore
    /\ lastReq = NoRequest
    /\ lastEvent = [s \in SessionIds |-> Event("none", "-")]
    /\ hist = [s \in SessionIds |-> NoHist]
    /\ requests = 0
    /\ overlaps = 0
    /\ call = NoCall
    /\ result = None

\* POST /plan
start_plan(direct_url) ==
    /\ FreeSlots # {}
    /\ \E sid \in SessionIds \ used :
        LET st0 == initial_state(direct_url)
            entry == route_by_input(st0)
            i == CHOOSE j \in FreeSlots : \A k \in FreeSlots : j <= k
        IN  /\ sessions' = sessions \cup {sid}
            /\ used' = used \cup {sid}
            /\ objs' = [objs EXCEPT ![sid] = Some(Session(st0, entry))]
            /\ execs' = [execs EXCEPT ![i] =
                  Some([sid |-> sid, pc |-> entry, state |-> st0, resume |-> None,
                        resumed |-> FALSE, pending |-> FALSE,
                        sent |-> Types(<<SseEvent("session_start", "-")>>)])]
            /\ lastReq' = [op |-> "plan", sid |-> sid, code |-> 200, input |-> None,
                           pending |-> FALSE, running |-> FALSE, completed |-> FALSE]
    /\ UNCHANGED <<call, result, databaseUrl, store, lastEvent, hist, requests, overlaps>>

\* POST /sessions/{session_id}/resume
resume_session(sid, input) ==
    LET answer(code) == [op |-> "resume", sid |-> sid, code |-> code, input |-> Some(input),
                         pending |-> HasPending(sid), running |-> Running(sid) # {},
                         completed |-> sid \in sessions /\ Val(objs[sid]).completed]
        ck == Val(Checkpoint(sid))
        i == CHOOSE j \in FreeSlots : \A k \in FreeSlots : j <= k
    IN  \/ /\ sid \notin sessions
           /\ lastReq' = answer(404)
           /\ UNCHANGED <<call, result, databaseUrl, sessions, objs, used, execs, store, lastEvent, hist>>
        \/ /\ sid \in sessions
           /\ Val(objs[sid]).completed
           /\ lastReq' = answer(400)
           /\ UNCHANGED <<call, result, databaseUrl, sessions, objs, used, execs, store, lastEvent, hist>>
        \/ /\ sid \in sessions
           /\ ~Val(objs[sid]).completed
           /\ FreeSlots # {}
           /\ lastReq' = answer(200)
           /\ execs' = [execs EXCEPT ![i] =
                 IF databaseUrl
                 THEN \* Command(resume=...) on a graph without checkpointer raises
                      Some([sid |-> sid, pc |-> "finish", state |-> initial_state(<<>>),
                            resume |-> Some(input), resumed |-> TRUE, pending |-> FALSE,
                            sent |-> <<>>])
                 ELSE Some([sid |-> sid,
                            pc |-> IF ck.next = "END" THEN "finish" ELSE ck.next,
                            state |-> ck.state, resume |-> Some(input),
                            resumed |-> TRUE, pending |-> ~IsNone(ck.intr),
                            sent |-> <<>>])]
           /\ UNCHANGED <<call, result, databaseUrl, sessions, objs, used, store, lastEvent, hist>>

\* a client sends a resume request: at most MaxRequests of them, at most
\* maxOverlaps while an execution of the session is running
ClientResume(sid, input, maxOverlaps) ==
    /\ requests < MaxRequests
    /\ Running(sid) # {} => overlaps < maxOverlaps
    /\ requests' = requests + 1
    /\ overlaps' = IF Running(sid) # {} THEN overlaps + 1 ELSE overlaps
    /\ resume_session(sid, input)

\* DELETE /sessions/{session_id}
delete_session(sid) ==
    \/ /\ sid \in sessions
       /\ sessions' = sessions \ {sid}
       /\ objs' = Reachable(objs, sessions', execs)
       /\ hist' = [hist EXCEPT ![sid].deleted = Checkpoint(sid)]
       /\ lastReq' = [op |-> "delete", sid |-> sid, code |-> 200, input |-> None,
                      pending |-> HasPending(sid), running |-> Running(sid) # {},
                      completed |-> Val(objs[sid]).completed]
       /\ UNCHANGED <<call, result, databaseUrl, used, execs, store, lastEvent, requests, overlaps>>
    \/ /\ sid \notin sessions
       /\ lastReq' = [op |-> "delete", sid |-> sid, code |-> 404, input |-> None,
                      pending |-> FALSE, running |-> FALSE, completed |-> FALSE]
       /\ UNCHANGED <<call, result, databaseUrl, sessions, objs, used, execs, store, lastEvent, hist, requests, overlaps>>

\* the server process is lost and started again: the module-level dict, the
\* Session objects and the running generators are gone
Restart ==
    /\ sessions # {}
    /\ sessions' = {}
    /\ objs' = [s \in SessionIds |-> None]
    /\ execs' = [i \in Slots |-> None]
    /\ hist' = [s \in SessionIds |->
                  [hist[s] EXCEPT !.crashed = IF HasPending(s) THEN Checkpoint(s) ELSE @]]
    /\ lastReq' = [op |-> "restart", sid |-> "-", code |-> 0, input |-> None,
                   pending |-> FALSE, running |-> FALSE, completed |-> FALSE]
    /\ UNCHANGED <<call, result, databaseUrl, used, store, lastEvent, requests, overlaps>>

(***************************************************************************)
(* Execution of the graph by stream_graph_execution: one action per stage. *)
(* A stage runs to its return, its interrupt() or its exception in one     *)
(* step, together with the checkpoint the runtime writes after it.         *)
(***************************************************************************)
At(i, node) == ~IsNone(execs[i]) /\ Val(execs[i]).pc = node

\* the saver after the runtime wrote checkpoint ck
PutCheckpoint(sid, ck) ==
    IF databaseUrl THEN objs
    ELSE [objs EXCEPT ![sid] = Some([Val(@) EXCEPT !.saver = Some(ck)])]

\* what the observation records when execution e wrote ck after issuing calls
Observe(e, ck, calls) ==
    [hist EXCEPT ![e.sid] =
        [@ EXCEPT !.repeated = @ \cup (IF e.pending /\ ~IsNone(e.resume)
                                        THEN calls \cap e.state.h_calls ELSE {}),
                  !.unsolicited = @ \/ (e.resumed /\ ~e.pending /\ ~databaseUrl),
                  !.deleted = IF IsNone(@) \/ databaseUrl THEN @ ELSE Some(ck)]]

\* the stage of execution i returned: its update is applied, the successor
\* scheduled and the checkpoint written
StageReturns(i, newState, next, calls, newStore) ==
    LET e == Val(execs[i])
        st2 == [newState EXCEPT
                  !.h_done = @ \cup {e.pc},
                  !.h_calls = @ \cup calls]
        ck == [state |-> st2, next |-> next, intr |-> None]
    IN  /\ execs' = [execs EXCEPT ![i] =
              Some([e EXCEPT !.pc = IF next = "END" THEN "finish" ELSE next,
                             !.state = st2, !.resume = None,
                             !.sent = Sent(@, StatusEvents(e))])]
        /\ objs' = PutCheckpoint(e.sid, ck)
        /\ hist' = Observe(e, ck, calls)
        /\ store' = newStore
        /\ UNCHANGED <<call, result, databaseUrl, sessions, used, lastReq, lastEvent, requests, overlaps>>

\* the stage of execution i called interrupt() with nothing to resume with:
\* the checkpoint keeps the stage as next together with the interrupt value
StageSuspends(i, calls, existing_lists) ==
    LET e == Val(execs[i])
        st2 == [e.state EXCEPT !.h_suspended = Append(@, e.pc),
                               !.h_calls = @ \cup calls]
        ck == [state |-> st2, next |-> e.pc,
               intr |-> Some(InterruptValue(e.pc, e.state, existing_lists))]
    IN  /\ execs' = [execs EXCEPT ![i] = Some([e EXCEPT !.pc = "finish", !.state = st2,
                                                       !.sent = Sent(@, StatusEvents(e))])]
        /\ objs' = PutCheckpoint(e.sid, ck)
        /\ hist' = Observe(e, ck, calls)
        /\ UNCHANGED <<call, result, databaseUrl, sessions, used, store, lastReq, lastEvent, requests, overlaps>>

\* the stage of execution i raised: nothing is written, the except clause of
\* stream_graph_execution emits the error event and the generator ends
StageRaises(i) ==
    LET e == Val(execs[i])
    IN  /\ execs' = [execs EXCEPT ![i] = None]
        /\ objs' = Reachable(objs, sessions, execs')
        /\ lastEvent' = [lastEvent EXCEPT ![e.sid] = Event("error", e.pc)]
        /\ hist' = [hist EXCEPT ![e.sid].stream =
                       StreamOf(e, StatusEvents(e) \o <<SseEvent("error", "-")>>)]
        /\ UNCHANGED <<call, result, databaseUrl, sessions, used, store, lastReq, requests, overlaps>>

RunSearchMeals(i) ==
    /\ At(i, "search_meals")
    /\ \/ StageReturns(i, search_meals(Val(execs[i]).state), EdgeFrom("search_meals"),
                       {"search_meals.search"}, store)
       \/ StageRaises(i)

RunParseMeals(i, env) ==
    /\ At(i, "parse_meals")
    /\ \/ \E recipes \in env.recipes :
            StageReturns(i, parse_meals(Val(execs[i]).state, recipes),
                         EdgeFrom("parse_meals"), {"parse_meals.llm"}, store)
       \/ StageRaises(i)

RunValidateRecipes(i, env) ==
    /\ At(i, "validate_recipes")
    /\ \/ \E valid \in env.recipes, dish_names \in DishLists :
            LET st2 == validate_recipes(Val(execs[i]).state, valid, dish_names)
            IN  StageReturns(i, st2, should_refine(st2), {"validate_recipes.llm"}, store)
       \/ StageRaises(i)

RunRefineSearch(i, env) ==
    /\ At(i, "refine_search")
    /\ \/ \E recipes \in env.recipes :
            StageReturns(i, refine_search(Val(execs[i]).state, recipes),
                         EdgeFrom("refine_search"),
                         {"refine_search.search", "refine_search.llm"}, store)
       \/ StageRaises(i)

RunPresentOptions(i) ==
    /\ At(i, "present_options")
    /\ LET e == Val(execs[i])
       IN  \/ /\ IsNone(e.resume)
              /\ StageSuspends(i, {}, <<>>)
           \/ /\ ~IsNone(e.resume)
              /\ ~present_options_raises(e.state, Val(e.resume))
              /\ StageReturns(i, present_options(e.state, Val(e.resume)),
                              EdgeFrom("present_options"), {}, store)
           \/ /\ ~IsNone(e.resume)
              /\ present_options_raises(e.state, Val(e.resume))
              /\ StageRaises(i)

RunCreateMealFromUrl(i) ==
    /\ At(i, "create_meal_from_url")
    /\ \E fetched \in BOOLEAN :
          StageReturns(i, create_meal_from_url(Val(execs[i]).state, fetched),
                       EdgeFrom("create_meal_from_url"), {"create_meal_from_url.fetch"}, store)

RunExtractIngredients(i, env) ==
    /\ At(i, "extract_ingredients")
    /\ LET e == Val(execs[i])
       IN  \/ /\ extract_skips(e.state)
              /\ StageReturns(i, extract_ingredients(e.state, <<>>),
                              EdgeFrom("extract_ingredients"), {}, store)
           \/ /\ ~extract_skips(e.state)   \* the fetch fails: caught
              /\ StageReturns(i, ApplyUpdate(e.state,
                                 FetchFailedUpdate(Val(e.state.selected_meal).recipe_url)),
                              EdgeFrom("extract_ingredients"),
                              {"extract_ingredients.fetch"}, store)
           \/ /\ ~extract_skips(e.state)
              /\ \E ingredients \in env.ingredients :
                    StageReturns(i, extract_ingredients(e.state, ingredients),
                                 EdgeFrom("extract_ingredients"),
                                 {"extract_ingredients.fetch", "extract_ingredients.llm"},
                                 store)
           \/ /\ ~extract_skips(e.state)   \* the language model call fails
              /\ StageRaises(i)

RunReviewIngredients(i) ==
    /\ At(i, "review_ingredients")
    /\ LET e == Val(execs[i])
       IN  \/ /\ ~Truthy(e.state.grocery_list)
              /\ StageReturns(i, [e.state EXCEPT !.grocery_list = Some(<<>>)],
                              EdgeFrom("review_ingredients"), {}, store)
           \/ /\ Truthy(e.state.grocery_list)
              /\ IsNone(e.resume)
              /\ StageSuspends(i, {}, <<>>)
           \/ /\ Truthy(e.state.grocery_list)
              /\ ~IsNone(e.resume)
              /\ ~review_ingredients_raises(Val(e.resume))
              /\ StageReturns(i, review_ingredients(e.state, Val(e.resume)),
                              EdgeFrom("review_ingredients"), {}, store)
           \/ /\ Truthy(e.state.grocery_list)
              /\ ~IsNone(e.resume)
              /\ review_ingredients_raises(Val(e.resume))
              /\ StageRaises(i)

RunAddToReminders(i, env) ==
    /\ At(i, "add_to_reminders")
    /\ LET e == Val(execs[i])
           ingredients == Val(e.state.grocery_list)
       IN  \/ /\ ~Truthy(e.state.grocery_list)
              /\ StageReturns(i, [e.state EXCEPT !.reminders_added = Some(FALSE)],
                              EdgeFrom("add_to_reminders"), {}, store)
           \/ /\ Truthy(e.state.grocery_list)
              /\ IsNone(e.resume)
              /\ \E lists_ok \in BOOLEAN :
                    StageSuspends(i, {"get_all_lists"}, get_all_lists(store, lists_ok))
           \/ /\ Truthy(e.state.grocery_list)
              /\ ~IsNone(e.resume)
              /\ add_to_reminders_raises(Val(e.resume))
              /\ StageRaises(i)
           \/ /\ Truthy(e.state.grocery_list)
              /\ ~IsNone(e.resume)
              /\ ~add_to_reminders_raises(Val(e.resume))
              /\ \E lists_ok \in BOOLEAN, ext \in StoreOutcomes(Len(ingredients), env.failures) :
                    LET r == add_to_reminders(store, ingredients, Val(e.resume),
                                              get_all_lists(store, lists_ok), ext)
                    IN  StageReturns(i, [e.state EXCEPT !.reminders_added = Some(r.reminders_added),
                                                        !.h_failed = @ \/ r.failed,
                                                        !.h_list = r.list_name,
                                                        !.h_log = r.log],
                                     EdgeFrom("add_to_reminders"), r.calls, r.store)

\* the stream of execution i ended: "After streaming, check the final state"
Finish(i) ==
    /\ At(i, "finish")
    /\ LET e == Val(execs[i])
           ck == Val(Checkpoint(e.sid))
       IN  /\ execs' = [execs EXCEPT ![i] = None]
           /\ IF databaseUrl
              THEN \* no checkpointer: get_state (or astream_events) raises
                   /\ lastEvent' = [lastEvent EXCEPT ![e.sid] = Event("error", "-")]
                   /\ objs' = Reachable(objs, sessions, execs')
                   /\ hist' = [hist EXCEPT ![e.sid].stream =
                                  StreamOf(e, <<SseEvent("error", "-")>>)]
              ELSE IF ck.next # "END"
              THEN /\ lastEvent' = [lastEvent EXCEPT ![e.sid] =
                                     Event(EventFor(ParentNode(ck.next), ck.intr), "-")]
                   /\ objs' = Reachable(objs, sessions, execs')
                   /\ hist' = [hist EXCEPT ![e.sid].stream =
                                  StreamOf(e, <<SseEvent(EventFor(ParentNode(ck.next), ck.intr),
                                                         "-")>>)]
              ELSE /\ lastEvent' = [lastEvent EXCEPT ![e.sid] = Event("complete", "-")]
                   /\ objs' = Reachable([objs EXCEPT ![e.sid] = Some([Val(@) EXCEPT !.completed = TRUE])],
                                        sessions, execs')
                   /\ hist' = [hist EXCEPT ![e.sid].completed =
                                  IF IsNone(@) THEN Some(Values(ck.state)) ELSE @,
                                            ![e.sid].stream =
                                  StreamOf(e, CompletionEvents(Values(ck.state)))]
           /\ UNCHANGED <<call, result, databaseUrl, sessions, used, store, lastReq, requests, overlaps>>

\* one stage of execution i, the environment answering from env
Stage(i, env) ==
    \/ RunSearchMeals(i)
    \/ RunParseMeals(i, env)
    \/ RunValidateRecipes(i, env)
    \/ RunRefineSearch(i, env)
    \/ RunPresentOptions(i)
    \/ RunCreateMealFromUrl(i)
    \/ RunExtractIngredients(i, env)
    \/ RunReviewIngredients(i)
    \/ RunAddToReminders(i, env)
    \/ Finish(i)

\* what the language model and the list store may answer
Answers == [recipes |-> RecipeLists, ingredients |-> IngredientLists,
            failures |-> MaxStoreFailures]

\* the server with a client that waits for the end of a stream before it
\* sends the next resume request
Next ==
    \/ \E direct_url \in DirectUrls : start_plan(direct_url)
    \/ \E sid \in SessionIds, input \in ResumeValues : ClientResume(sid, input, 0)
    \/ \E sid \in SessionIds : delete_session(sid)
    \/ Restart
    \/ \E i \in Slots : Stage(i, Answers)

Spec == Init /\ [][Next]_vars

\* the answers when requests overlap: no recipe or MaxRecipes of them, both
\* ingredients, no failing list-store call
FewAnswers == [recipes |-> {r \in RecipeLists : Len(r) \in {0, MaxRecipes}},
               ingredients |-> {<<Egg, Milk>>},
               failures |-> 0]

\* the server with a client that sends up to MaxOverlaps resume requests
\* while an execution is still running
NextOverlap ==
    \/ \E direct_url \in {<<>>, UrlHttps} : start_plan(direct_url)
    \/ \E sid \in SessionIds, input \in ResumeValues : ClientResume(sid, input, MaxOverlaps)
    \/ \E i \in Slots : Stage(i, FewAnswers)

SpecOverlap == Init /\ [][NextOverlap]_vars

(***************************************************************************)
(* The review and the commit stage on their own: a URL run suspended at    *)
(* review_ingredients, answered with the values a client may send          *)
(***************************************************************************)
Tomato == [name |-> <<"t","o","m","a","t","o">>, amount |-> <<"2">>, unit |-> <<>>]
Onion == [name |-> <<"o","n","i","o","n">>, amount |-> <<"1">>, unit |-> <<>>]
Garlic == [name |-> <<"g","a","r","l","i","c">>, amount |-> <<"3">>, unit |-> <<"c","l","o","v","e","s">>]
OliveOil == [name |-> <<"O","l","i","v","e"," ","O","i","l">>, amount |-> <<"1">>, unit |-> <<"t","b","s","p">>]

\* ExtractedIngredients.ingredients of the reviewed recipe
ReviewLists == {<<Tomato, Onion, Garlic>>, <<OliveOil, Garlic>>, <<Garlic>>}

\* ResumeRequest.input sent in answer to an ingredient_review event
ReviewValues ==
    {StrOk, <<" ","O","K"," ">>, <<>>, StrYes, StrNo, <<"2">>,
     <<"r","e","m","o","v","e",":"," ","2",","," ","g","a","r","l","i","c">>,
     <<"R","e","m","o","v","e",":"," ","G","A","R","L","I","C">>,
     <<"r","e","m","o","v","e"," ","1">>,
     <<"r","e","m","o","v","e"," ","9",","," ","k","a","l","e">>,
     <<"r","e","m","o","v","e",":"," ","o","l","i","v","e"," ","o","i","l">>,
     StrRemoveAll,
     <<"r","e","m","o","v","e"," ",SuperscriptTwo>>}

\* ResumeRequest.input sent in answer to a reminders_prompt event
CommitValues ==
    {KwSkip, <<" ","S","k","i","p"," ">>, StrNo, StrCancel, <<>>,
     <<"1">>, <<" ","2"," ">>, <<"0">>, <<"9">>, <<"n","e","w">>, <<SuperscriptTwo>>}

ListH == <<"h">>
\* the reminders application with a second, empty list
TwoListStore == InitialStore \o <<[name |-> ListH, items |-> <<>>]>>

\* the state after stage node returned newState having issued calls
After(newState, node, calls) ==
    [newState EXCEPT !.h_done = @ \cup {node}, !.h_calls = @ \cup calls]

\* the state of a URL run whose extraction returned ingredients
ExtractedState(ingredients) ==
    After(extract_ingredients(
              After(create_meal_from_url(initial_state(UrlHttps), TRUE),
                    "create_meal_from_url", {"create_meal_from_url.fetch"}),
              ingredients),
          "extract_ingredients", {"extract_ingredients.fetch", "extract_ingredients.llm"})

\* the checkpoint of that run once review_ingredients has suspended
ReviewCheckpoint(ingredients) ==
    [state |-> [ExtractedState(ingredients) EXCEPT !.h_suspended = <<"review_ingredients">>],
     next |-> "review_ingredients",
     intr |-> Some(InterruptValue("review_ingredients", ExtractedState(ingredients), <<>>))]

InitReview ==
    /\ databaseUrl = FALSE
    /\ sessions = SessionIds
    /\ used = SessionIds
    /\ \E ingredients \in ReviewLists :
          objs = [s \in SessionIds |->
                    Some([completed |-> FALSE, saver |-> Some(ReviewCheckpoint(ingredients))])]
    /\ execs = [i \in Slots |-> None]
    /\ store \in {InitialStore, TwoListStore}
    /\ lastReq = [NoRequest EXCEPT !.op = "plan", !.sid = "s1", !.code = 200]
    /\ lastEvent = [s \in SessionIds |-> Event("ingredient_review", "-")]
    /\ hist = [s \in SessionIds |-> NoHist]
    /\ requests = 0
    /\ overlaps = 0
    /\ call = NoCall
    /\ result = None

\* the stage a session is suspended at ("-": none)
SuspendedAt(sid) == IF HasPending(sid) THEN Val(Checkpoint(sid)).next ELSE "-"

\* the client answers the ingredient_review event
AnswerReview(sid, input) ==
    /\ SuspendedAt(sid) = "review_ingredients"
    /\ ClientResume(sid, input, 0)

\* the client answers the reminders_prompt event
AnswerCommit(sid, input) ==
    /\ SuspendedAt(sid) = "add_to_reminders"
    /\ ClientResume(sid, input, 0)

NextReview ==
    \/ \E sid \in SessionIds, input \in ReviewValues : AnswerReview(sid, input)
    \/ \E sid \in SessionIds, input \in CommitValues : AnswerCommit(sid, input)
    \/ \E i \in Slots : RunReviewIngredients(i)
    \/ \E i \in Slots : RunAddToReminders(i, Answers)
    \/ \E i \in Slots : Finish(i)

SpecReview == InitReview /\ [][NextReview]_vars

(***************************************************************************)
(* The interrupt registry (server/interrupts.py) and the completion event  *)
(* (server/sse.py), called on their own.  A dict is a function from its    *)
(* keys; an Optional dict is None or Some(dict).                           *)
(***************************************************************************)
\* dict.get(key, default)
Get(d, key, default) == IF key \in DOMAIN d THEN d[key] ELSE default

\* truthiness of an Optional dict: neither None nor empty
DictTruthy(o) == ~IsNone(o) /\ DOMAIN Val(o) # {}

\* interrupt_value or {}
OrEmpty(o) == IF DictTruthy(o) THEN Val(o) ELSE <<>>

\* keywords that leave out those of the review instruction
KEYWORDS_bad(matcher) ==
    CASE matcher = "MealSelectionMatcher" -> {KwSelectARecipe, <<"1","-","5">>}
      [] matcher = "IngredientReviewMatcher" -> {<<"r","e","v","i","e","w">>}
      [] matcher = "RemindersPromptMatcher" -> {KwListNumber, KwSkip, <<"l","i","s","t"," ","n","a","m","e">>}
      [] matcher = "GenericInterruptMatcher" -> {}

\* the KEYWORDS of a matcher class
KEYWORDS(matcher) ==
    CASE matcher = "MealSelectionMatcher" -> {KwSelectARecipe, <<"1","-","5">>}
      [] matcher = "IngredientReviewMatcher" -> {KwRemove, KwApprove, <<"'","o","k","'">>}
      [] matcher = "RemindersPromptMatcher" -> {KwListNumber, KwSkip, <<"l","i","s","t"," ","n","a","m","e">>}
      [] matcher = "GenericInterruptMatcher" -> {}

\* the NODES of a matcher class
NODES(matcher) ==
    CASE matcher = "MealSelectionMatcher" -> {"present_options"}
      [] matcher = "RemindersPromptMatcher" -> {"add_to_reminders"}
      [] OTHER -> {}

\* any(kw in instruction.lower() for kw in self.KEYWORDS)
KeywordMatch(matcher, instruction) ==
    \E kw \in KEYWORDS(matcher) : Contains(Lower(instruction), kw)

\* matcher.matches(next_node, instruction, interrupt_value)
matches(matcher, next_node, instruction, interrupt_value) ==
    CASE matcher = "MealSelectionMatcher" ->
            \/ ~IsNone(next_node) /\ Val(next_node) \in NODES(matcher)
            \/ /\ DictTruthy(interrupt_value)
               /\ "options" \in DOMAIN Val(interrupt_value)
               /\ Val(interrupt_value)["options"] # <<>>
            \/ KeywordMatch(matcher, instruction)
      [] matcher = "IngredientReviewMatcher" -> KeywordMatch(matcher, instruction)
      [] matcher = "RemindersPromptMatcher" ->
            \/ ~IsNone(next_node) /\ Val(next_node) \in NODES(matcher)
            \/ DictTruthy(interrupt_value) /\ "existing_lists" \in DOMAIN Val(interrupt_value)
            \/ KeywordMatch(matcher, instruction)
      [] matcher = "GenericInterruptMatcher" -> TRUE

\* matcher.build_event(interrupt_value): an InterruptMatch
build_event(matcher, interrupt_value) ==
    CASE matcher = "MealSelectionMatcher" ->
            [interrupt_type |-> "meal_options", event_name |-> "meal_options",
             event_data |->
                [options |-> Get(OrEmpty(interrupt_value), "options", <<>>),
                 prompt |-> Get(OrEmpty(interrupt_value), "prompt", <<"S","e","l","e","c","t"," ","a"," ","m","e","a","l",":">>),
                 instruction |-> Get(OrEmpty(interrupt_value), "instruction", <<>>)]]
      [] matcher = "IngredientReviewMatcher" ->
            [interrupt_type |-> "ingredient_review", event_name |-> "ingredient_review",
             event_data |->
                [ingredients |-> Get(OrEmpty(interrupt_value), "ingredients", <<>>),
                 prompt |-> Get(OrEmpty(interrupt_value), "prompt", <<"R","e","v","i","e","w"," ","i","n","g","r","e","d","i","e","n","t","s",":">>),
                 instruction |-> Get(OrEmpty(interrupt_value), "instruction", <<>>)]]
      [] matcher = "RemindersPromptMatcher" ->
            [interrupt_type |-> "reminders_prompt", event_name |-> "reminders_prompt",
             event_data |->
                [items |-> Get(OrEmpty(interrupt_value), "items", <<>>),
                 existing_lists |-> Get(OrEmpty(interrupt_value), "existing_lists", <<>>),
                 prompt |-> Get(OrEmpty(interrupt_value), "prompt", <<"S","e","l","e","c","t"," ","a"," ","r","e","m","i","n","d","e","r","s"," ","l","i","s","t",":">>),
                 instruction |-> Get(OrEmpty(interrupt_value), "instruction", <<>>)]]
      [] matcher = "GenericInterruptMatcher" ->
            [interrupt_type |-> "interrupt", event_name |-> "interrupt",
             event_data |->
                [next_node |-> None,
                 prompt |-> Get(OrEmpty(interrupt_value), "prompt", <<"I","n","p","u","t"," ","r","e","q","u","i","r","e","d",":">>),
                 data |-> OrEmpty(interrupt_value)]]

\* a registry in the order selection, review, commit
INTERRUPT_MATCHERS_selection_first ==
    <<"MealSelectionMatcher", "IngredientReviewMatcher", "RemindersPromptMatcher",
      "GenericInterruptMatcher">>

\* a registry without the fallback matcher
INTERRUPT_MATCHERS_bad ==
    <<"RemindersPromptMatcher", "IngredientReviewMatcher", "MealSelectionMatcher">>

\* the registry, in priority order
INTERRUPT_MATCHERS ==
    <<"RemindersPromptMatcher", "IngredientReviewMatcher", "MealSelectionMatcher",
      "GenericInterruptMatcher">>

\* raise RuntimeError("No interrupt matcher found - this should not happen")
NoMatcherFound == [interrupt_type |-> "RuntimeError", event_name |-> "RuntimeError",
                   event_data |-> <<>>]

\* "For generic interrupts, add the next_node info"
WithNextNode(match, next_node) ==
    IF match.interrupt_type = "interrupt"
    THEN [match EXCEPT !.event_data.next_node = next_node]
    ELSE match

\* the loop of detect_interrupt over the matchers that are left
RECURSIVE DetectFrom(_, _, _, _)
DetectFrom(matchers, next_node, instruction, interrupt_value) ==
    IF matchers = <<>> THEN NoMatcherFound
    ELSE IF matches(Head(matchers), next_node, instruction, interrupt_value)
    THEN WithNextNode(build_event(Head(matchers), interrupt_value), next_node)
    ELSE DetectFrom(Tail(matchers), next_node, instruction, interrupt_value)

\* detect_interrupt(next_node, interrupt_value)
detect_interrupt(next_node, interrupt_value) ==
    DetectFrom(INTERRUPT_MATCHERS, next_node,
               IF DictTruthy(interrupt_value)
               THEN Get(Val(interrupt_value), "instruction", <<>>) ELSE <<>>,
               interrupt_value)

\* the classification inlined in stream_graph_execution, with the event
\* payload it builds: the event name and the data that is serialized
InlineEvent(next_node, interrupt_value) ==
    LET instruction == Get(OrEmpty(interrupt_value), "instruction", <<>>)
    IN  IF next_node = Some("present_options")
           \/ Contains(Lower(instruction), KwSelectARecipe)
        THEN [event_name |-> "meal_options",
              event_data |->
                 [options |-> Get(OrEmpty(interrupt_value), "options", <<>>),
                  prompt |-> Get(OrEmpty(interrupt_value), "prompt", <<"S","e","l","e","c","t"," ","a"," ","m","e","a","l",":">>),
                  instruction |-> instruction]]
        ELSE IF Contains(Lower(instruction), KwRemove) \/ Contains(Lower(instruction), KwApprove)
        THEN [event_name |-> "ingredient_review",
              event_data |->
                 [ingredients |-> Get(OrEmpty(interrupt_value), "ingredients", <<>>),
                  prompt |-> Get(OrEmpty(interrupt_value), "prompt", <<"R","e","v","i","e","w"," ","i","n","g","r","e","d","i","e","n","t","s",":">>),
                  instruction |-> instruction]]
        ELSE IF Contains(Lower(instruction), KwListNumber) \/ Contains(Lower(instruction), KwSkip)
        THEN [event_name |-> "reminders_prompt",
              event_data |->
                 [items |-> Get(OrEmpty(interrupt_value), "items", <<>>),
                  existing_lists |-> Get(OrEmpty(interrupt_value), "existing_lists", <<>>),
                  prompt |-> Get(OrEmpty(interrupt_value), "prompt", <<"S","e","l","e","c","t"," ","a"," ","r","e","m","i","n","d","e","r","s"," ","l","i","s","t",":">>),
                  instruction |-> instruction]]
        ELSE [event_name |-> "interrupt",
              event_data |->
                 [next_node |-> next_node,
                  prompt |-> Get(OrEmpty(interrupt_value), "prompt", <<"I","n","p","u","t"," ","r","e","q","u","i","r","e","d",":">>),
                  data |-> OrEmpty(interrupt_value)]]

\* complete_event(selected_meal, grocery_list, reminders_added): the event
\* name and the payload that is serialized
complete_event(selected_meal, grocery_list, reminders_added) ==
    [event_name |-> "complete",
     event_data |-> [selected_meal |-> selected_meal,
                     grocery_list |-> IF Truthy(grocery_list) THEN Val(grocery_list) ELSE <<>>,
                     reminders_added |-> reminders_added]]

\* next-stage names detect_interrupt is called with
NextNodes == {None, Some("present_options"), Some("review_ingredients"),
              Some("add_to_reminders"), Some("process_meal"), Some("search_meals")}

\* instruction texts: those of the three stages, and texts that carry
\* keywords of several suspension types or of none
Instructions ==
    {PresentInstruction, ReviewInstruction, RemindersInstruction,
     <<"S","e","l","e","c","t"," ","a"," ","r","e","c","i","p","e"," ","o","r"," ","t","y","p","e"," ","S","K","I","P">>,
     <<"R","e","m","o","v","e"," ","a","n"," ","i","t","e","m"," ","o","r"," ","p","i","c","k"," ","a"," ","l","i","s","t"," ","n","u","m","b","e","r">>,
     <<"C","o","n","t","i","n","u","e","?">>, <<>>}

\* a dict with the keys of keys, each with its value from vals
DictOf(keys, vals) == [k \in keys |-> vals[k]]

\* payloads: any subset of four keys, with the values a stage may give them
PayloadDicts ==
    {DictOf(keys, vals) :
        keys \in SUBSET {"instruction", "options", "existing_lists", "prompt"},
        vals \in [instruction : Instructions,
                  options : {<<>>, <<Recipe(2)>>},
                  existing_lists : {<<>>, <<ListG>>},
                  prompt : {<<"P","i","c","k"," ","o","n","e">>}]}

\* interrupt_value: None, an empty dict or one of the payloads
InterruptValues == {None} \cup {Some(d) : d \in PayloadDicts}

\* the arguments of complete_event
Completions ==
    [selected_meal : {None, Some(Recipe(2))},
     grocery_list : {None, Some(<<>>), Some(<<Egg, Milk>>)},
     reminders_added : BOOLEAN]

\* reminder texts found in the destination list
ExistingTexts ==
    {<<"e","g","g","s"," ","(","3"," ","l","a","r","g","e",")">>, <<"e","g","g","s">>,
     <<"f","l","o","u","r"," ","(","1"," ","c","u","p",")">>, <<"f","l","o","u","r"," ","(","1","0"," ","c","u","p",")">>,
     <<"m","i","l","k"," ","(","1","/","2"," ","c","u","p",")">>, <<"m","i","l","k"," ","(","1",".","5"," ","C","u","p",")">>,
     <<"s","u","g","a","r"," ","(","1","-","2"," ","t","b","s","p",")">>, <<"s","a","l","t"," ","(","a"," ","p","i","n","c","h",")">>}

\* models.Ingredient as the commit stage hands them to collate_ingredients
NewItems ==
    [name : {<<"e","g","g","s">>, <<"F","l","o","u","r">>, <<"m","i","l","k">>, <<"s","u","g","a","r">>, <<"s","a","l","t">>},
     amount : {<<"2">>, <<"1","/","4">>, <<"2",".","7","5">>, <<"0",".","2","5">>, <<"1","-","2">>, <<"s","o","m","e">>},
     unit : {<<"l","a","r","g","e">>, <<"c","u","p">>, <<"C","U","P">>, <<"t","b","s","p">>, <<>>}]

\* reminder texts of a list with several entries, some sharing a normalized
\* name
ListTexts ==
    {<<"e","g","g","s"," ","(","1",")">>, <<"E","g","g","s"," ","(","2"," ","l","a","r","g","e",")">>,
     <<"s","a","l","t"," ","(","1"," ","t","s","p",")">>}

\* the new items of a grocery list with several entries, some sharing a
\* normalized name
ListItems ==
    {[name |-> <<"e","g","g","s">>, amount |-> <<"2">>, unit |-> <<>>],
     [name |-> <<"E","g","g">>, amount |-> <<"1">>, unit |-> <<"l","a","r","g","e">>],
     [name |-> <<"s","a","l","t">>, amount |-> <<"1">>, unit |-> <<>>]}

\* the longest list of existing texts and of new items that is collated
MaxExisting == 2
MaxNewItems == 3

\* the sequences over S of length at most n
SeqsUpTo(S, n) == UNION {[1..k -> S] : k \in 0..n}

\* names in the singular, and the same names followed by "s" and by "es"
Singulars == {<<"e","g","g">>, <<"t","o","m","a","t","o">>, <<"o","l","i","v","e">>}
Plurals(name) == {name \o <<"s">>, name \o <<"e","s">>}
NameForms == Singulars \cup UNION {Plurals(name) : name \in Singulars}

\* composite reminder texts, as earlier merges of differing units leave them
CompositeTexts ==
    {<<"f","l","o","u","r"," ","(","1"," ","c","u","p"," ","+"," ","2"," ","t","b","s","p",")">>,
     <<"s","u","g","a","r"," ","(","1","-","2"," ","t","b","s","p"," ","+"," ","1"," ","c","u","p",")">>}

\* the stages that call interrupt()
SuspendingStages == {"present_options", "review_ingredients", "add_to_reminders"}

\* the dicts the stages pass to interrupt(value=...)
StagePayloads(stage) ==
    CASE stage = "present_options" ->
            {[prompt |-> <<"P","i","c","k"," ","o","n","e">>, options |-> o,
              instruction |-> PresentInstruction] : o \in {<<>>, <<Recipe(1)>>, <<Recipe(1), Recipe(2)>>}}
      [] stage = "review_ingredients" ->
            {[prompt |-> <<"P","i","c","k"," ","o","n","e">>, ingredients |-> g,
              instruction |-> ReviewInstruction] : g \in {<<Egg>>, <<Egg, Milk>>}}
      [] stage = "add_to_reminders" ->
            {[existing_lists |-> l, items |-> g,
              instruction |-> RemindersInstruction] :
                l \in {<<>>, <<ListG>>}, g \in {<<Egg>>, <<Egg, Milk>>}}

\* the most recipes the language model returns to refine_search
MaxFound == 3

\* the candidates refine_search finds in the state: MealOptions with the
\* ordinals parse_meals gave them, some repeating a URL or without one
ValidOptions ==
    {[i \in 1..Len(urls) |->
        [id |-> i, name |-> <<"o">> \o urls[i], recipe_url |-> urls[i]]] :
        urls \in {<<>>, << <<"d">> >>, << <<"a">>, <<"d">> >>,
                  << <<"d">>, <<"e">>, <<"f">> >>, << <<"d">>, <<"e">>, <<"a">> >>,
                  << <<"a">>, <<"d">>, <<"a">> >>, << <<"d">>, <<>>, <<"e">> >>}}

\* the recipes the language model returns to refine_search, some without a
\* URL, some repeating one
FoundRecipes ==
    {[i \in 1..Len(urls) |-> [name |-> <<"n">> \o urls[i], url |-> urls[i]]] :
        urls \in SeqsUpTo({<<>>, <<"a">>, <<"b">>, <<"c">>}, MaxFound)}

\* the state refine_search reads: should_refine sent the run here after a
\* validation that named dishes to search for
RefineState(options) ==
    [initial_state(<<>>) EXCEPT !.search_results = Some("results"),
                                !.meal_options = Some(options),
                                !.refinement_count = 1,
                                !.refine_dishes = Some(<<<<"d">>>>)]

\* the calls made on their own: detect_interrupt, complete_event,
\* collate_ingredients and refine_search
Calls ==
    {[op |-> "detect_interrupt", next_node |-> n, interrupt_value |-> v] :
        n \in NextNodes, v \in InterruptValues}
    \cup {[op |-> "detect_interrupt", next_node |-> n, interrupt_value |-> Some(d)] :
            n \in NextNodes, d \in UNION {StagePayloads(stage) : stage \in SuspendingStages}}
    \cup {[op |-> "complete_event", args |-> c] : c \in Completions}
    \cup {[op |-> "collate_ingredients", existing |-> <<t>>, new_items |-> <<item>>] :
            t \in ExistingTexts, item \in NewItems}
    \cup {[op |-> "collate_ingredients", existing |-> e, new_items |-> n] :
            e \in SeqsUpTo(ListTexts, MaxExisting), n \in SeqsUpTo(ListItems, MaxNewItems)}
    \cup {[op |-> "collate_ingredients",
            existing |-> <<old \o <<" ","(","1",")">> >>,
            new_items |-> <<[name |-> new, amount |-> <<"2">>, unit |-> <<>>]>>] :
            old \in NameForms, new \in NameForms}
    \cup {[op |-> "collate_ingredients", existing |-> <<t>>, new_items |-> <<item>>] :
            t \in CompositeTexts, item \in NewItems}
    \cup {[op |-> "refine_search", state |-> RefineState(o), recipes |-> r] :
            o \in ValidOptions, r \in FoundRecipes}

\* the server at rest, and one call about to be made
InitCalls ==
    /\ databaseUrl = FALSE
    /\ sessions = {}
    /\ objs = [s \in SessionIds |-> None]
    /\ used = {}
    /\ execs = [i \in Slots |-> None]
    /\ store = InitialStore
    /\ lastReq = NoRequest
    /\ lastEvent = [s \in SessionIds |-> Event("none", "-")]
    /\ hist = [s \in SessionIds |-> NoHist]
    /\ requests = 0
    /\ overlaps = 0
    /\ call \in Calls
    /\ result = None

\* the call returns r
Returns(r) ==
    /\ result = None
    /\ result' = Some(r)
    /\ UNCHANGED <<call, databaseUrl, sessions, objs, used, execs, store, lastReq, lastEvent,
                   hist, requests, overlaps>>

DetectInterrupt ==
    /\ call.op = "detect_interrupt"
    /\ Returns(detect_interrupt(call.next_node, call.interrupt_value))

CompleteEvent ==
    /\ call.op = "complete_event"
    /\ Returns(complete_event(call.args.selected_meal, call.args.grocery_list,
                              call.args.reminders_added))

CollateIngredients ==
    /\ call.op = "collate_ingredients"
    /\ Returns(collate_ingredients(call.existing, call.new_items))

RefineSearch ==
    /\ call.op = "refine_search"
    /\ Returns(refine_search(call.state, call.recipes))

NextCalls ==
    \/ DetectInterrupt
    \/ CompleteEvent
    \/ CollateIngredients
    \/ RefineSearch

SpecCalls == InitCalls /\ [][NextCalls]_vars

(***************************************************************************)
(* Properties                                                              *)
(***************************************************************************)
\* the workflow states in existence: those the running executions hold and
\* the one of the latest checkpoint
LineageStates ==
    {Val(execs[i]).state : i \in {j \in Slots : ~IsNone(execs[j])}}
    \cup {Val(Checkpoint(s)).state : s \in {t \in SessionIds : ~IsNone(Checkpoint(t))}}

\* the stages that are to run next, each with the state it will read
AboutToRun ==
    {[node |-> Val(execs[i]).pc, state |-> Val(execs[i]).state] :
        i \in {j \in Slots : ~IsNone(execs[j]) /\ Val(execs[j]).pc # "finish"}}
    \cup {[node |-> Val(Checkpoint(s)).next, state |-> Val(Checkpoint(s)).state] :
            s \in {t \in SessionIds : ~IsNone(Checkpoint(t))}}

\* C1: along every run the retry counter and the number of refine_search
\* executions never exceed 2; refine_search is about to run only right after
\* a validation that left fewer than 3 valid candidates, and only when it
\* ran fewer than 2 times before, so that the third such validation leads to
\* present_options
C1_RefinementBound ==
    /\ \A st \in LineageStates :
          /\ st.refinement_count <= 2
          /\ st.h_refines <= 2
          /\ st.h_refines <= st.refinement_count
    /\ \A p \in AboutToRun :
          p.node = "refine_search" =>
             /\ "validate_recipes" \in p.state.h_done
             /\ Len(Val(p.state.meal_options)) < 3
             /\ p.state.h_refines < 2
             /\ p.state.refinement_count = p.state.h_refines + 1

\* refine_search ran twice, and the validation after it, again with fewer
\* than 3 valid candidates, led to present_options
C1_Witness ==
    \E p \in AboutToRun :
        /\ p.node = "present_options"
        /\ p.state.h_refines = 2
        /\ p.state.refinement_count = 2
        /\ Len(Val(p.state.meal_options)) < 3

SuspensionRank(node) ==
    CASE node = "present_options" -> 1
      [] node = "review_ingredients" -> 2
      [] node = "add_to_reminders" -> 3

\* C2: along every run the suspensions come in the order present_options,
\* review_ingredients, add_to_reminders, none of them twice and none after a
\* later one; present_options suspends on the search path only; and the
\* terminal node is reached only when the three stages of the sub-graph have
\* completed
C2_SuspensionOrder ==
    /\ \A st \in LineageStates :
          /\ \A a, b \in 1..Len(st.h_suspended) :
                a < b => SuspensionRank(st.h_suspended[a]) < SuspensionRank(st.h_suspended[b])
          /\ "present_options" \in Range(st.h_suspended) =>
                /\ "search_meals" \in st.h_done
                /\ "create_meal_from_url" \notin st.h_done
    /\ \A p \in AboutToRun :
          p.node = "END" => SubgraphNodes \subseteq p.state.h_done
    /\ \A s \in SessionIds :
          ~IsNone(objs[s]) /\ Val(objs[s]).completed =>
             /\ Val(Checkpoint(s)).next = "END"
             /\ SubgraphNodes \subseteq Val(Checkpoint(s)).state.h_done

\* a search-path run suspended three times and was reported complete
C2_Witness ==
    \E s \in SessionIds :
        /\ ~IsNone(objs[s])
        /\ Val(objs[s]).completed
        /\ Val(Checkpoint(s)).state.h_suspended =
              <<"present_options", "review_ingredients", "add_to_reminders">>

\* starts with http:// or https://
SchemePrefixed(url) ==
    \/ Len(url) >= 7 /\ SubSeq(url, 1, 7) = <<"h","t","t","p",":","/","/">>
    \/ Len(url) >= 8 /\ SubSeq(url, 1, 8) = <<"h","t","t","p","s",":","/","/">>

\* C3: the entry stage of a run is create_meal_from_url exactly when the
\* entry URL is present, non-empty and starts with http:// or https://, and
\* search_meals for every other state
C3_Routing ==
    /\ \A p \in AboutToRun :
          p.state.h_done = {} =>
             p.node = IF /\ ~IsNone(p.state.direct_url)
                         /\ Val(p.state.direct_url) # <<>>
                         /\ SchemePrefixed(Val(p.state.direct_url))
                      THEN "create_meal_from_url" ELSE "search_meals"
    /\ \A st \in LineageStates :
          /\ "create_meal_from_url" \in st.h_done =>
                ~IsNone(st.direct_url) /\ SchemePrefixed(Val(st.direct_url))
          /\ "search_meals" \in st.h_done =>
                IsNone(st.direct_url) \/ ~SchemePrefixed(Val(st.direct_url))

\* a run started with an https:// URL went through create_meal_from_url
C3_Witness ==
    \E p \in AboutToRun :
        /\ p.state.h_done = {"create_meal_from_url"}
        /\ p.state.direct_url = Some(UrlHttps)
        /\ lastReq.op = "plan"

\* C4: present_options never raises, whatever the candidate list (the
\* empty one included) and the resume value: no stream of a session ends
\* with the error of an exception raised in present_options
C4_PresentNeverRaises ==
    \A s \in SessionIds :
        ~(lastEvent[s].event = "error" /\ lastEvent[s].stage = "present_options")

\* C5: a resume request that finds no pending suspension on the thread (its
\* run failed, completed or has not suspended yet, or the session is
\* unknown) is answered with an error, and no execution it started writes to
\* the thread's checkpoint
C5_ResumeWithoutSuspensionRejected ==
    /\ lastReq.op = "resume" /\ ~lastReq.pending /\ ~databaseUrl => lastReq.code \in {400, 404}
    /\ \A s \in SessionIds : ~hist[s].unsolicited

\* C6: once completion of a session was reported, the state values of its
\* thread stay as they were at completion, and every later resume request on
\* it is refused
C6_CompletedStateImmutable ==
    /\ \A s \in SessionIds :
          ~IsNone(hist[s].completed) /\ ~IsNone(Checkpoint(s)) =>
             Values(Val(Checkpoint(s)).state) = Val(hist[s].completed)
    /\ lastReq.op = "resume" /\ lastReq.completed => lastReq.code = 400

\* C7: at no time are two executions in flight for the same session
C7_SingleExecution ==
    \A s \in SessionIds : Cardinality(Running(s)) <= 1

\* C8: after the process was lost and started again, a session that was
\* suspended can be resumed from the checkpoint it had: the session is known,
\* the checkpoint is the one that was pending, and a resume request is
\* accepted
C8_ResumeAfterRestart ==
    \A s \in SessionIds :
        ~IsNone(hist[s].crashed) =>
           /\ Checkpoint(s) = hist[s].crashed
           /\ lastReq.op = "resume" /\ lastReq.sid = s => lastReq.code = 200

\* C9: after delete_session the checkpoint of the session's thread is still
\* in the checkpoint store, changed only by what a still running execution
\* of the session wrote since
C9_DeleteKeepsCheckpoint ==
    \A s \in SessionIds :
        ~IsNone(hist[s].deleted) => Checkpoint(s) = hist[s].deleted

\* C10: an execution resumed from a suspension issues no external call that
\* was already issued before the suspension
C10_NoRepeatedCall ==
    \A s \in SessionIds : hist[s].repeated = {}

\* the stages that make an external call: web search, page fetch or a
\* structured extraction by the language model
ExternalCallStages ==
    {"search_meals", "parse_meals", "validate_recipes", "refine_search",
     "create_meal_from_url", "extract_ingredients"}

\* C11: a failing external call inside a stage is caught inside that stage:
\* no stream of a session ends with the error event of an exception that
\* left one of the stages making external calls
C11_ExternalFailuresSwallowed ==
    \A s \in SessionIds :
        lastEvent[s].event = "error" => lastEvent[s].stage \notin ExternalCallStages

\* C12: if every external call returns, each start or resume call runs
\* finitely many stages and ends at a suspension or at the terminal node,
\* and a run is suspended at most 3 times (2 on the URL path) before it
\* reaches the terminal node: with the in-memory checkpointer no stream ends
\* with an error that is not the failure of an external call, refine_search
\* runs at most MaxRefinements times and the suspensions are at most 3 (2)
C12_RunsEndAtSuspensionOrEnd ==
    /\ ~databaseUrl =>
          \A s \in SessionIds :
              lastEvent[s].event = "error" => lastEvent[s].stage \in ExternalCallStages
    /\ \A st \in LineageStates :
          /\ st.h_refines <= MaxRefinements
          /\ Len(st.h_suspended) <=
                IF "create_meal_from_url" \in st.h_done THEN 2 ELSE 3

\* C13: a failing create_reminder or delete_reminders_batch call neither
\* makes the commit stage raise nor keeps the run from completing, and the
\* outcome of a completed run tells a commit in which a call failed from a
\* fully successful one: the complete event, whose only field the commit
\* decides is reminders_added, does not report TRUE for it
C13_CommitFailureReported ==
    /\ \A s \in SessionIds :
          ~(lastEvent[s].event = "error" /\ lastEvent[s].stage = "add_to_reminders")
    /\ \A s \in SessionIds :
          /\ ~IsNone(objs[s])
          /\ Val(objs[s]).completed
          /\ ~IsNone(Checkpoint(s))
          /\ Val(Checkpoint(s)).state.h_failed
          => Val(Checkpoint(s)).state.reminders_added # Some(TRUE)

\* C14: when the latest validation judged fewer than 3 candidates valid and
\* the run goes on to present_options (no budget or no refinement terms
\* left), the candidate list presented is exactly the list that validation
\* judged valid, the empty one included
C14_PresentedAreValidated ==
    /\ \A p \in AboutToRun :
          /\ p.node = "present_options"
          /\ ~IsNone(p.state.h_valid)
          /\ Len(Val(p.state.h_valid)) < MinValid
          => p.state.meal_options = p.state.h_valid
    /\ \A st \in LineageStates :
          /\ "present_options" \in Range(st.h_suspended)
          /\ ~IsNone(st.h_valid)
          /\ Len(Val(st.h_valid)) < MinValid
          => st.meal_options = st.h_valid

SearchPathNodes ==
    {"search_meals", "parse_meals", "validate_recipes", "refine_search", "present_options"}

\* the entry URL of the state is present and starts with http:// or https://
UrlRun(state) == ~IsNone(state.direct_url) /\ SchemePrefixed(Val(state.direct_url))

\* C15: in a run started with a scheme-prefixed entry URL no stage of the
\* search path, present_options included, runs or is about to run or
\* suspends; once create_meal_from_url has run there is exactly one
\* candidate, with ordinal 1 and the entry URL as its source, and it is the
\* selected candidate, whether or not the page could be fetched; and the
\* stage after it is the first one of the process-selection sub-graph
C15_UrlPathBypassesSearch ==
    /\ \A st \in LineageStates :
          UrlRun(st) =>
             /\ st.h_done \cap SearchPathNodes = {}
             /\ "present_options" \notin Range(st.h_suspended)
             /\ "create_meal_from_url" \in st.h_done =>
                   /\ ~IsNone(st.meal_options)
                   /\ Len(Val(st.meal_options)) = 1
                   /\ Val(st.meal_options)[1].id = 1
                   /\ Val(st.meal_options)[1].recipe_url = Val(st.direct_url)
                   /\ st.selected_meal = Some(Val(st.meal_options)[1])
    /\ \A p \in AboutToRun :
          UrlRun(p.state) =>
             /\ p.node \notin SearchPathNodes
             /\ p.state.h_done = {"create_meal_from_url"} => p.node = "extract_ingredients"

\* a run started with an http:// URL whose page could not be fetched went
\* through the sub-graph and reached the terminal node
C15_Witness ==
    \E s \in SessionIds :
        /\ ~IsNone(objs[s])
        /\ Val(objs[s]).completed
        /\ Val(Checkpoint(s)).state.direct_url = Some(UrlHttp)
        /\ Val(Val(Checkpoint(s)).state.selected_meal).name = <<"F">>
        /\ Val(Checkpoint(s)).state.h_done = {"create_meal_from_url"} \cup SubgraphNodes

\* the resume value, trimmed and lowercased, is empty, is ok or yes, or does
\* not start with "remove"
KeepsList(user_input) ==
    \/ Lower(Strip(user_input)) \in {<<>>, <<"o","k">>, <<"y","e","s">>}
    \/ ~StartsWith(Lower(Strip(user_input)), <<"r","e","m","o","v","e">>)

\* execution i is at review_ingredients with a list to review and the
\* resume value, and takes its step
ReviewStep(i) ==
    /\ At(i, "review_ingredients")
    /\ ~IsNone(Val(execs[i]).resume)
    /\ Truthy(Val(execs[i]).state.grocery_list)
    /\ execs'[i] # execs[i]

\* C16: review_ingredients resumed with a value that, trimmed and
\* lowercased, is empty, is ok or yes, or does not start with "remove" does
\* not raise and returns the list as it was, same items in the same order
C16_ReviewKeepsList ==
    [][\A i \in Slots :
          ReviewStep(i) /\ KeepsList(Val(Val(execs[i]).resume)) =>
             /\ ~IsNone(execs'[i])
             /\ Val(execs'[i]).pc = "add_to_reminders"
             /\ Val(execs'[i]).state.grocery_list = Val(execs[i]).state.grocery_list]_vars

\* the review of [tomato, onion, garlic] was answered " OK " and the stage
\* returned the three items
C16_Witness ==
    \E s \in SessionIds :
        /\ lastReq.op = "resume" /\ lastReq.code = 200
        /\ lastReq.input = Some(<<" ","O","K"," ">>)
        /\ ~IsNone(Checkpoint(s))
        /\ Val(Checkpoint(s)).next = "add_to_reminders"
        /\ "review_ingredients" \in Val(Checkpoint(s)).state.h_done
        /\ Val(Checkpoint(s)).state.grocery_list = Some(<<Tomato, Onion, Garlic>>)

\* the resume value, trimmed and lowercased, starts with "remove" and is not
\* exactly "remove all"
RemovesItems(user_input) ==
    /\ StartsWith(Lower(Strip(user_input)), <<"r","e","m","o","v","e">>)
    /\ Lower(Strip(user_input)) # <<"r","e","m","o","v","e"," ","a","l","l">>

\* the tokens that follow the prefix "remove" or "remove:", separated by
\* commas or white space
TokensAfterPrefix(user_input) ==
    LET u == Lower(Strip(user_input))
        rest == IF StartsWith(u, <<"r","e","m","o","v","e",":">>) THEN Drop(u, 7) ELSE Drop(u, 6)
    IN  Split(ReplaceChar(rest, ",", " "))

\* the items whose 1-based position is not a numeric token and whose
\* lowercased name is not a non-numeric token
ExpectedAfterRemove(items, user_input) ==
    KeepItems(items, 1,
              {DigitsVal(t) : t \in {x \in Range(TokensAfterPrefix(user_input)) : IsDecimal(x)}},
              {t \in Range(TokensAfterPrefix(user_input)) : ~IsDecimal(t)})

\* C17: review_ingredients resumed with a value that starts with "remove"
\* and is not "remove all" does not raise and returns exactly the items, in
\* their order, whose position is not among the numeric tokens and whose
\* lowercased name is not among the other tokens
C17_RemoveByPositionOrName ==
    [][\A i \in Slots :
          ReviewStep(i) /\ RemovesItems(Val(Val(execs[i]).resume)) =>
             /\ ~IsNone(execs'[i])
             /\ Val(execs'[i]).state.grocery_list =
                   Some(ExpectedAfterRemove(Val(Val(execs[i]).state.grocery_list),
                                            Val(Val(execs[i]).resume)))]_vars

\* the resume value is "remove: " followed by the name, in any letter case
RemovesName(user_input, name) ==
    Lower(Strip(user_input)) = <<"r","e","m","o","v","e",":"," ">> \o Lower(name)

\* C18: review_ingredients resumed with "remove: <name>", in any letter
\* case, for the name of an item of the list, one word or several, returns
\* a list with no item of that name
C18_RemoveByNameRemoves ==
    [][\A i \in Slots :
          ReviewStep(i) =>
             \A item \in Range(Val(Val(execs[i]).state.grocery_list)) :
                RemovesName(Val(Val(execs[i]).resume), item.name) =>
                   /\ ~IsNone(execs'[i])
                   /\ \A kept \in Range(Val(Val(execs'[i]).state.grocery_list)) :
                         Lower(kept.name) # Lower(item.name)]_vars

\* the resume value, trimmed and lowercased, is skip, no, cancel or empty
SkipToken(list_input) ==
    Lower(Strip(list_input)) \in
        {<<"s","k","i","p">>, <<"n","o">>, <<"c","a","n","c","e","l">>, <<>>}

\* execution i is at add_to_reminders with items to commit and the resume
\* value, and takes its step
CommitStep(i) ==
    /\ At(i, "add_to_reminders")
    /\ ~IsNone(Val(execs[i]).resume)
    /\ Truthy(Val(execs[i]).state.grocery_list)
    /\ execs'[i] # execs[i]

\* the commit stage of execution i has returned after create_list failed
CreateListFailed(e) ==
    /\ ~IsNone(e)
    /\ "create_list" \in Val(e).state.h_calls
    /\ "create_reminder" \notin Val(e).state.h_calls

\* C19: when the commit stage is resumed with a skip token (skip, no,
\* cancel or empty, in any letter case, trimmed), or creating the missing
\* destination list fails, the stage returns reminders_added = false and
\* the store is left as it was: no item created, none deleted
C19_AbortWritesNothing ==
    [][\A i \in Slots :
          CommitStep(i) =>
             /\ SkipToken(Val(Val(execs[i]).resume)) =>
                   /\ ~IsNone(execs'[i])
                   /\ Val(execs'[i]).state.reminders_added = Some(FALSE)
                   /\ store' = store
             /\ CreateListFailed(execs'[i]) =>
                   /\ Val(execs'[i]).state.reminders_added = Some(FALSE)
                   /\ store' = store]_vars

\* the commit was answered " Skip " and the run completed with
\* reminders_added = false
C19_Witness ==
    \E s \in SessionIds :
        /\ lastReq.op = "resume" /\ lastReq.code = 200
        /\ lastReq.input = Some(<<" ","S","k","i","p"," ">>)
        /\ ~IsNone(objs[s]) /\ Val(objs[s]).completed
        /\ "add_to_reminders" \in Range(Val(Checkpoint(s)).state.h_suspended)
        /\ Val(Checkpoint(s)).state.reminders_added = Some(FALSE)
        /\ store \in {InitialStore, TwoListStore}

\* the k-th of the lists when the trimmed value is the decimal number k,
\* 1 <= k <= number of lists, and the trimmed value itself otherwise
ExpectedList(list_input, lists) ==
    IF /\ IsDecimal(Strip(list_input))
       /\ 1 <= DigitsVal(Strip(list_input))
       /\ DigitsVal(Strip(list_input)) <= Len(lists)
    THEN lists[DigitsVal(Strip(list_input))]
    ELSE Strip(list_input)

\* what "the existing lists" may be for a session suspended at the commit
\* stage: the lists its reminders_prompt shows, and what get_all_lists
\* returns when the stage runs again, the names in the store or [] on failure
ExistingLists(sid) ==
    {Val(Val(Checkpoint(sid)).intr).existing_lists,
     get_all_lists(store, TRUE), get_all_lists(store, FALSE)}

\* C20: the commit stage resumed with a value that is no skip token
\* resolves the destination to the k-th existing list when the trimmed
\* value is a digit string k within 1..number of lists, and to the trimmed
\* value as a literal list name otherwise (0 and numbers beyond the lists
\* included), and does so without raising
C20_DestinationResolved ==
    [][\A i \in Slots :
          CommitStep(i) /\ Val(execs[i]).pending /\ ~SkipToken(Val(Val(execs[i]).resume)) =>
             /\ ~IsNone(execs'[i])
             /\ \E lists \in ExistingLists(Val(execs[i]).sid) :
                   Val(execs'[i]).state.h_list =
                      Some(ExpectedList(Val(Val(execs[i]).resume), lists))]_vars

\* C21: the list store is written only by a step of the commit stage that
\* has been resumed with a value that is no skip token: every other stage,
\* the commit stage up to its suspension, the requests and the end of a
\* stream leave the store as it was
C21_StoreWrittenOnlyByResumedCommit ==
    [][store' # store =>
          \E i \in Slots : CommitStep(i) /\ ~SkipToken(Val(Val(execs[i]).resume))]_vars

\* a run went through its stages, suspended at the commit stage, was
\* answered "1", and the store has been written
C21_Witness ==
    \E s \in SessionIds :
        /\ store # InitialStore
        /\ lastReq.op = "resume" /\ lastReq.input = Some(<<"1">>)
        /\ ~IsNone(Checkpoint(s))
        /\ "add_to_reminders" \in Range(Val(Checkpoint(s)).state.h_suspended)
        /\ {"extract_ingredients", "review_ingredients", "add_to_reminders"}
              \subseteq Val(Checkpoint(s)).state.h_done

\* the entries of `existing` that a new item supersedes: for each normalized
\* name of a new item, the first entry of that normalized name
Superseded(existing, new_items) ==
    {existing[k] : k \in {j \in 1..Len(existing) :
        /\ \E n \in 1..Len(new_items) :
              normalize_name(new_items[n].name) = normalize_name(parse_reminder_text(existing[j])[1])
        /\ \A m \in 1..(j - 1) :
              normalize_name(parse_reminder_text(existing[m])[1])
                 # normalize_name(parse_reminder_text(existing[j])[1])}}

\* the store after the calls of log were carried out in order on list name,
\* call k of the create_reminder calls failing when k is in ext.fail
RECURSIVE Replay(_, _, _, _, _)
Replay(st, name, log, k, ext) ==
    IF log = <<>> THEN st
    ELSE IF Head(log).op = "delete_reminders_batch"
    THEN Replay(IF ext.delete_ok THEN delete_reminders_batch(st, name, Head(log).texts) ELSE st,
                name, Tail(log), k, ext)
    ELSE Replay(IF k \in ext.fail \/ ListIndex(st, name) = 0 THEN st
                ELSE create_reminder(st, name, Head(log).texts[1]),
                name, Tail(log), k + 1, ext)

\* positions of the calls to op in a log
CallsTo(log, op) == {k \in 1..Len(log) : log[k].op = op}

\* the commit stage of execution i got past "Ensure list exists"
Commits(i) ==
    /\ CommitStep(i)
    /\ ~IsNone(execs'[i])
    /\ Val(execs'[i]).state.reminders_added = Some(TRUE)

\* the order of the calls in log, for the entries `existing` read from the
\* destination and the new items
CallOrder(log, existing, new_items) ==
    /\ Cardinality(CallsTo(log, "delete_reminders_batch")) <= 1
    /\ \A d \in CallsTo(log, "delete_reminders_batch") :
          /\ \A c \in CallsTo(log, "create_reminder") : d < c
          /\ Range(log[d].texts) = Superseded(existing, new_items)
          /\ Len(log[d].texts) = Cardinality(Superseded(existing, new_items))
    /\ (CallsTo(log, "delete_reminders_batch") = {}) = (Superseded(existing, new_items) = {})
    /\ Cardinality({c \in CallsTo(log, "create_reminder") : log[c].kind = "update"})
          = Cardinality(Superseded(existing, new_items))
    /\ \A a, b \in CallsTo(log, "create_reminder") :
          log[a].kind = "update" /\ log[b].kind = "add" => a < b

\* C22: within one commit delete_reminders_batch is called at most once,
\* with exactly the original texts of the entries that are merged, before
\* every create_reminder call; the merged replacements are created before
\* the new items; and the store after the commit is the result of these
\* calls carried out in this order
C22_DeleteOnceBeforeCreates ==
    [][\A i \in Slots :
          Commits(i) =>
             \E existing \in {get_reminders(store, Val(Val(execs'[i]).state.h_list), TRUE), <<>>},
                st1 \in {store, Append(store, [name |-> Val(Val(execs'[i]).state.h_list),
                                               items |-> <<>>])},
                ext \in StoreOutcomes(Len(Val(Val(execs[i]).state.grocery_list)),
                                      MaxStoreFailures) :
                /\ CallOrder(Val(execs'[i]).state.h_log, existing,
                             Val(Val(execs[i]).state.grocery_list))
                /\ store' = Replay(st1, Val(Val(execs'[i]).state.h_list),
                                   Val(execs'[i]).state.h_log, 1, ext)]_vars

\* a commit of [egg, milk] into the list holding "eggs (1)" deleted that
\* entry, then created "eggs (3)", then "milk (1 cup)"
C22_Witness ==
    \E s \in SessionIds :
        /\ ~IsNone(Checkpoint(s))
        /\ Val(Checkpoint(s)).next = "END"
        /\ Val(Checkpoint(s)).state.h_log =
              <<Call("delete_reminders_batch", <<<<"e","g","g","s"," ","(","1",")">>>>, "update"),
                Call("create_reminder", <<<<"e","g","g","s"," ","(","3",")">>>>, "update"),
                Call("create_reminder", <<<<"m","i","l","k"," ","(","1"," ","c","u","p",")">>>>, "add")>>
        /\ store = <<[name |-> ListG,
                      items |-> << <<"e","g","g","s"," ","(","3",")">>,
                                   <<"m","i","l","k"," ","(","1"," ","c","u","p",")">> >>]>>

\* the texts of the create_reminder calls the "update" loop issued, in order
MergedTexts(log) ==
    SelectSeq(log, LAMBDA c : c.op = "create_reminder" /\ c.kind = "update")

\* the texts in list name of store st (none when there is no such list)
ItemsOf(st, name) ==
    IF ListIndex(st, name) = 0 THEN {} ELSE Range(st[ListIndex(st, name)].items)

\* C23: when the commit stage has finished, the destination list does not
\* hold a superseded original entry together with its merged replacement,
\* whatever the list-store calls answered
C23_NoOldWithMerged ==
    [][\A i \in Slots :
          Commits(i) =>
             \A d \in CallsTo(Val(execs'[i]).state.h_log, "delete_reminders_batch") :
                \A k \in 1..Len(Val(execs'[i]).state.h_log[d].texts) :
                   ~ /\ Val(execs'[i]).state.h_log[d].texts[k]
                           \in ItemsOf(store', Val(Val(execs'[i]).state.h_list))
                     /\ MergedTexts(Val(execs'[i]).state.h_log)[k].texts[1]
                           \in ItemsOf(store', Val(Val(execs'[i]).state.h_list))]_vars

\* the instruction text detect_interrupt hands to the matchers
InstructionOf(interrupt_value) ==
    IF DictTruthy(interrupt_value) THEN Get(Val(interrupt_value), "instruction", <<>>) ELSE <<>>

\* matcher k of the registry matches the call, and none before it does
FirstMatch(k, c) ==
    /\ matches(INTERRUPT_MATCHERS[k], c.next_node, InstructionOf(c.interrupt_value),
               c.interrupt_value)
    /\ \A j \in 1..(k - 1) :
          ~matches(INTERRUPT_MATCHERS[j], c.next_node, InstructionOf(c.interrupt_value),
                   c.interrupt_value)

\* detect_interrupt was called and has returned
Detected == call.op = "detect_interrupt" /\ ~IsNone(result)

\* C24: detect_interrupt returns, for every next-stage name and payload
\* (none and empty included), the event of the first matcher of the registry
\* that matches and never ends in "no matcher found"; when that is the
\* generic matcher the event carries the payload as it came and the stage name
C24_DetectTotalFirstMatch ==
    Detected =>
        /\ Val(result).event_name \in
              {"reminders_prompt", "ingredient_review", "meal_options", "interrupt"}
        /\ \E k \in 1..Len(INTERRUPT_MATCHERS) :
              /\ FirstMatch(k, call)
              /\ Val(result).event_name =
                    build_event(INTERRUPT_MATCHERS[k], call.interrupt_value).event_name
        /\ FirstMatch(4, call) =>
              /\ Val(result).event_name = "interrupt"
              /\ Val(result).event_data.next_node = call.next_node
              /\ Val(result).event_data.data =
                    (IF IsNone(call.interrupt_value) THEN <<>> ELSE Val(call.interrupt_value))

\* a payload holding only a prompt, suspended at search_meals, came back as
\* the generic event with that payload and that stage name
C24_Witness ==
    /\ Detected
    /\ call.next_node = Some("search_meals")
    /\ DictTruthy(call.interrupt_value)
    /\ DOMAIN Val(call.interrupt_value) = {"prompt"}
    /\ Val(result).event_name = "interrupt"
    /\ Val(result).event_data.data = Val(call.interrupt_value)
    /\ Val(result).event_data.next_node = Some("search_meals")

\* C25: a payload that contains the key existing_lists is classified as
\* reminders_prompt, whatever the next-stage name is and whatever keywords
\* its instruction text holds
C25_ExistingListsIsRemindersPrompt ==
    Detected /\ ~IsNone(call.interrupt_value)
             /\ "existing_lists" \in DOMAIN Val(call.interrupt_value) =>
        /\ Val(result).event_name = "reminders_prompt"
        /\ Val(result).interrupt_type = "reminders_prompt"
        /\ Val(result).event_data.existing_lists = Val(call.interrupt_value)["existing_lists"]

\* a payload with existing_lists, a non-empty options list and the review
\* stage's instruction, suspended at present_options, came back as
\* reminders_prompt
C25_Witness ==
    /\ Detected
    /\ call.next_node = Some("present_options")
    /\ ~IsNone(call.interrupt_value)
    /\ {"existing_lists", "options", "instruction"} \subseteq DOMAIN Val(call.interrupt_value)
    /\ Val(call.interrupt_value)["options"] # <<>>
    /\ Val(call.interrupt_value)["instruction"] = ReviewInstruction
    /\ Val(result).event_name = "reminders_prompt"

\* the payload holds none of the fields that are unique to a suspension type
NoUniqueField(interrupt_value) ==
    IsNone(interrupt_value)
    \/ DOMAIN Val(interrupt_value) \cap {"existing_lists", "options", "ingredients"} = {}

\* C26: when the payload holds no field unique to a suspension type and the
\* next-stage name is the stage of a type, the event is of that type,
\* whichever keywords the instruction text holds
C26_StageNameBeforeKeywords ==
    Detected /\ NoUniqueField(call.interrupt_value) =>
        /\ call.next_node = Some("present_options") =>
              Val(result).event_name = "meal_options"
        /\ call.next_node = Some("add_to_reminders") =>
              Val(result).event_name = "reminders_prompt"

\* C27: every suspension event (meal_options, ingredient_review,
\* reminders_prompt, interrupt) and the completion event carries a prompt
\* that is a non-empty text, also when the payload has no prompt entry
C27_EventsCarryPrompt ==
    ~IsNone(result) =>
        /\ "prompt" \in DOMAIN Val(result).event_data
        /\ Val(result).event_data["prompt"] # <<>>

\* the event types that end a suspension or completion cycle
TerminalTypes == {"meal_options", "ingredient_review", "reminders_prompt", "interrupt",
                  "complete", "error"}

\* in a sequence of event types, exactly one is terminal and it is the last
OneTerminalLast(types) ==
    /\ types # <<>>
    /\ types[Len(types)] \in TerminalTypes
    /\ \A k \in 1..(Len(types) - 1) : types[k] \notin TerminalTypes

\* C28: a stream that has ended sent exactly one terminal event
\* (meal_options, ingredient_review, reminders_prompt, interrupt, complete
\* or error), after every status event; a stream that is running has sent
\* none yet; and the first event of a /plan stream is session_start
C28_OneTerminalEventPerStream ==
    /\ \A s \in SessionIds :
          ~IsNone(hist[s].stream) =>
             /\ OneTerminalLast(Val(hist[s].stream).types)
             /\ Val(hist[s].stream).plan => Val(hist[s].stream).types[1] = "session_start"
    /\ \A i \in Slots :
          ~IsNone(execs[i]) =>
             /\ \A k \in 1..Len(Val(execs[i]).sent) : Val(execs[i]).sent[k] \notin TerminalTypes
             /\ ~Val(execs[i]).resumed => Val(execs[i]).sent[1] = "session_start"

\* a resume stream ran the commit stage and ended with the grocery list and
\* the complete event, after the /plan stream had ended with a suspension
C28_Witness ==
    \E s \in SessionIds :
        /\ hist[s].stream =
              Some([plan |-> FALSE, types |-> <<"status", "grocery_list", "complete">>])
        /\ lastEvent[s].event = "complete"
        /\ lastReq.op = "resume"

\* collate_ingredients was called with one existing text and one new item
\* of the same normalized name, and has returned
Merged ==
    /\ call.op = "collate_ingredients"
    /\ ~IsNone(result)
    /\ Len(call.existing) = 1
    /\ Len(call.new_items) = 1
    /\ normalize_name(parse_reminder_text(call.existing[1])[1])
          = normalize_name(call.new_items[1].name)

\* amount and unit of the existing entry and of the new item
OldAmount == parse_reminder_text(call.existing[1])[2]
OldUnit == parse_reminder_text(call.existing[1])[3]
NewAmount == call.new_items[1].amount
NewUnit == call.new_items[1].unit

\* the units are equal ignoring case and both amounts parse as numbers
Summable ==
    /\ Lower(OldUnit) = Lower(NewUnit)
    /\ ~IsNone(parse_amount(OldAmount))
    /\ ~IsNone(parse_amount(NewAmount))

\* the text is a number whose value is n/d
Denotes(text, n, d) ==
    /\ ~IsNone(ParseNumber(text))
    /\ Val(ParseNumber(text)).n * d = n * Val(ParseNumber(text)).d

\* C29: when a new item matches an existing entry, their units are equal
\* ignoring case and both amounts parse as numbers, the entry is replaced by
\* one whose amount text denotes exactly the sum of the two amounts, has no
\* trailing ".0", and whose unit is the existing entry's unit
C29_NumericMergeIsExactSum ==
    Merged /\ Summable =>
        /\ Val(result).to_add = <<>>
        /\ Len(Val(result).to_update) = 1
        /\ Val(result).to_update[1].old_text = call.existing[1]
        /\ Val(result).to_update[1].combined.unit = OldUnit
        /\ ~EndsWith(Val(result).to_update[1].combined.amount, <<".","0">>)
        /\ Denotes(Val(result).to_update[1].combined.amount,
                   Val(parse_amount(OldAmount)).n * Val(parse_amount(NewAmount)).d
                      + Val(parse_amount(NewAmount)).n * Val(parse_amount(OldAmount)).d,
                   Val(parse_amount(OldAmount)).d * Val(parse_amount(NewAmount)).d)

\* an amount followed by its unit, the unit left out when it is empty
AmountWithUnit(amount, unit) ==
    IF unit = <<>> THEN amount ELSE amount \o <<" ">> \o unit

\* C30: when a new item matches an existing entry and the units differ
\* ignoring case, or one of the amounts does not parse as a number, the
\* entry is replaced by one whose amount is the text "amt1 unit1 + amt2 unit2",
\* the existing entry's part first and an empty unit left out, and whose
\* unit is empty
C30_MismatchConcatenates ==
    Merged /\ ~Summable =>
        /\ Val(result).to_add = <<>>
        /\ Len(Val(result).to_update) = 1
        /\ Val(result).to_update[1].old_text = call.existing[1]
        /\ Val(result).to_update[1].combined.unit = <<>>
        /\ Val(result).to_update[1].combined.amount =
              AmountWithUnit(OldAmount, OldUnit) \o <<" ","+"," ">>
                 \o AmountWithUnit(NewAmount, NewUnit)

\* "flour (1 cup)" and the new item Flour/2/tbsp were merged into the
\* amount "1 cup + 2 tbsp" with an empty unit
C30_Witness ==
    /\ Merged
    /\ call.existing = << <<"f","l","o","u","r"," ","(","1"," ","c","u","p",")">> >>
    /\ NewAmount = <<"2">>
    /\ NewUnit = <<"t","b","s","p">>
    /\ Val(result).to_update[1].combined.amount =
          <<"1"," ","c","u","p"," ","+"," ","2"," ","t","b","s","p">>
    /\ Val(result).to_update[1].combined.unit = <<>>

\* collate_ingredients has returned
Collated == call.op = "collate_ingredients" /\ ~IsNone(result)

\* the normalized name an existing text is looked up by
CollateKey(text) == normalize_name(parse_reminder_text(text)[1])

\* the first entry of existing with the normalized name of existing[i] is
\* existing[i] itself
FirstLine(existing, i) ==
    \A k \in 1..(i - 1) : CollateKey(existing[k]) # CollateKey(existing[i])

\* new_items[j] is the first new item of its normalized name, and an
\* existing entry has that normalized name
IsMergedItem(existing, new_items, j) ==
    /\ \E i \in 1..Len(existing) :
          CollateKey(existing[i]) = normalize_name(new_items[j].name)
    /\ \A k \in 1..(j - 1) :
          normalize_name(new_items[k].name) # normalize_name(new_items[j].name)

\* to_update[u] merges the first new item of a normalized name into the
\* first existing entry of that name, under the entry's own name
MergesFirstIntoFirst(existing, new_items, update) ==
    \E i \in 1..Len(existing), j \in 1..Len(new_items) :
        /\ FirstLine(existing, i)
        /\ IsMergedItem(existing, new_items, j)
        /\ CollateKey(existing[i]) = normalize_name(new_items[j].name)
        /\ update.old_text = existing[i]
        /\ update.combined.name = parse_reminder_text(existing[i])[1]

\* C31: in one collate call no existing text is in to_update twice, every
\* pair of to_update merges the first new item of a normalized name into the
\* first existing entry of that name and keeps the entry's original name,
\* and every later new item of a normalized name already seen is in to_add
C31_EachLineMergedOnce ==
    Collated =>
        /\ \A u, v \in 1..Len(Val(result).to_update) :
              u # v => Val(result).to_update[u].old_text # Val(result).to_update[v].old_text
        /\ \A u \in 1..Len(Val(result).to_update) :
              MergesFirstIntoFirst(call.existing, call.new_items, Val(result).to_update[u])
        /\ \A j \in 1..Len(call.new_items) :
              ~IsMergedItem(call.existing, call.new_items, j)
                 => call.new_items[j] \in Range(Val(result).to_add)

\* with "eggs (1)" and "Eggs (2 large)" in the list, the new items eggs,
\* Egg and eggs were collated: the first was merged into "eggs (1)", the
\* other two are to be added
C31_Witness ==
    /\ Collated
    /\ call.existing = << <<"e","g","g","s"," ","(","1",")">>,
                          <<"E","g","g","s"," ","(","2"," ","l","a","r","g","e",")">> >>
    /\ Len(call.new_items) = 3
    /\ \A j \in 1..3 : normalize_name(call.new_items[j].name) = <<"e","g","g">>
    /\ Len(Val(result).to_update) = 1
    /\ Val(result).to_update[1].old_text = <<"e","g","g","s"," ","(","1",")">>
    /\ Val(result).to_update[1].combined.name = <<"e","g","g","s">>
    /\ Len(Val(result).to_add) = 2

\* the new items from the j-th on that are merged (merged = TRUE), or that are
\* not (merged = FALSE), in input order
RECURSIVE ItemsFrom(_, _, _, _)
ItemsFrom(existing, new_items, j, merged) ==
    IF j > Len(new_items) THEN <<>>
    ELSE (IF IsMergedItem(existing, new_items, j) = merged THEN <<new_items[j]>> ELSE <<>>)
            \o ItemsFrom(existing, new_items, j + 1, merged)

\* C32: collate partitions the new items: to_add and to_update together have
\* as many entries as new_items, to_add is the sequence of the unmatched
\* items, unmodified and in input order, and to_update has one pair per
\* matched item, in the input order of the matched items
C32_CollatePartitions ==
    Collated =>
        /\ Len(Val(result).to_add) + Len(Val(result).to_update) = Len(call.new_items)
        /\ Val(result).to_add = ItemsFrom(call.existing, call.new_items, 1, FALSE)
        /\ Len(Val(result).to_update)
              = Len(ItemsFrom(call.existing, call.new_items, 1, TRUE))
        /\ \A u \in 1..Len(Val(result).to_update) :
              CollateKey(Val(result).to_update[u].old_text)
                 = normalize_name(ItemsFrom(call.existing, call.new_items, 1, TRUE)[u].name)

\* with "salt (1 tsp)" and "eggs (1)" in the list, the new items eggs, Egg
\* and salt were collated: Egg is to be added, eggs and salt are merged in
\* that order
C32_Witness ==
    /\ Collated
    /\ call.existing = << <<"s","a","l","t"," ","(","1"," ","t","s","p",")">>,
                          <<"e","g","g","s"," ","(","1",")">> >>
    /\ Len(call.new_items) = 3
    /\ call.new_items[1].name = <<"e","g","g","s">>
    /\ call.new_items[2].name = <<"E","g","g">>
    /\ call.new_items[3].name = <<"s","a","l","t">>
    /\ Val(result).to_add = <<call.new_items[2]>>
    /\ Len(Val(result).to_update) = 2
    /\ Val(result).to_update[1].old_text = call.existing[2]
    /\ Val(result).to_update[2].old_text = call.existing[1]

\* the reminder texts the commit stage writes for the items
ReminderTexts(items) == [k \in 1..Len(items) |-> format_reminder_item(items[k])]

\* C33: when collate_ingredients(E, N) has returned (A, U), collating A again
\* with the list E followed by the reminder texts of A leaves nothing to add
C33_CollateIdempotent ==
    Collated =>
        collate_ingredients(call.existing \o ReminderTexts(Val(result).to_add),
                            Val(result).to_add).to_add = <<>>

\* one of the two names is the other followed by "s" or by "es", letter
\* case aside
SingularAndPlural(a, b) ==
    \/ Lower(a) \in Plurals(Lower(b))
    \/ Lower(b) \in Plurals(Lower(a))

\* C34: a name and the same name followed by "s" or by "es" have the same
\* normalized name, so that a new item named in the plural is merged into the
\* existing entry named in the singular, and the other way round
C34_PluralMergesWithSingular ==
    /\ Collated
    /\ Len(call.existing) = 1
    /\ Len(call.new_items) = 1
    /\ SingularAndPlural(parse_reminder_text(call.existing[1])[1], call.new_items[1].name)
    => /\ CollateKey(call.existing[1]) = normalize_name(call.new_items[1].name)
       /\ Val(result).to_add = <<>>
       /\ Len(Val(result).to_update) = 1

\* the existing entry of the call is a composite: the text in its
\* parentheses contains "+"
CompositeEntry == Merged /\ Contains(OldAmount, <<"+">>)

\* C38: an existing entry whose parenthesized content contains "+" is parsed
\* with the whole content as its amount and an empty unit, and merging a new
\* item into it yields that content followed by " + " and the new item's
\* amount and unit, with an empty unit
C38_CompositeIsExtended ==
    CompositeEntry =>
        /\ OldUnit = <<>>
        /\ call.existing[1] = parse_reminder_text(call.existing[1])[1]
                                 \o <<" ","(">> \o OldAmount \o <<")">>
        /\ Len(Val(result).to_update) = 1
        /\ Val(result).to_update[1].combined.unit = <<>>
        /\ Val(result).to_update[1].combined.amount =
              OldAmount \o <<" ","+"," ">> \o AmountWithUnit(NewAmount, NewUnit)

\* extract_ingredients completed after its page fetch failed: the fetch was
\* issued and the language model was never asked
FetchFailed(state) ==
    /\ "extract_ingredients" \in state.h_done
    /\ "extract_ingredients.fetch" \in state.h_calls
    /\ "extract_ingredients.llm" \notin state.h_calls

\* after the failed fetch the run goes on to the terminal node: nothing is
\* suspended for review or commit, the commit stage reports
\* reminders_added = false and the list store is never called
EndsWithoutCommit(state) ==
    /\ "review_ingredients" \notin Range(state.h_suspended)
    /\ "add_to_reminders" \notin Range(state.h_suspended)
    /\ "add_to_reminders" \in state.h_done => state.reminders_added = Some(FALSE)
    /\ "get_all_lists" \notin state.h_calls
    /\ IsNone(state.h_list)
    /\ state.h_log = <<>>

\* an execution that holds a state after the failed fetch is at one of the
\* stages up to the terminal node, and the checkpoint of such a state carries
\* no suspension
RunsToEnd ==
    /\ \A i \in Slots :
          ~IsNone(execs[i]) /\ FetchFailed(Val(execs[i]).state) =>
             Val(execs[i]).pc \in {"review_ingredients", "add_to_reminders", "finish"}
    /\ \A s \in SessionIds :
          ~IsNone(Checkpoint(s)) /\ FetchFailed(Val(Checkpoint(s)).state) =>
             /\ IsNone(Val(Checkpoint(s)).intr)
             /\ "add_to_reminders" \in Val(Checkpoint(s)).state.h_done
                   => Val(Checkpoint(s)).next = "END"

\* C35: after the page fetch of extract_ingredients failed, the workflow
\* state holds an empty grocery list and a non-empty message under the key
\* error, and the run goes on to the terminal node without a review or commit
\* suspension, with reminders_added = false and without a list-store call
C35_FetchFailureRecorded ==
    /\ \A st \in LineageStates :
          FetchFailed(st) =>
             /\ st.grocery_list = Some(<<>>)
             /\ "error" \in DOMAIN st
             /\ Truthy(st["error"])
             /\ EndsWithoutCommit(st)
    /\ RunsToEnd

\* the event type of a suspending stage
StageEventType(stage) ==
    CASE stage = "present_options" -> "meal_options"
      [] stage = "review_ingredients" -> "ingredient_review"
      [] stage = "add_to_reminders" -> "reminders_prompt"

\* detect_interrupt has returned for a payload of the stage, the next-stage
\* name being the stage's own, that of the sub-graph node, or absent
DetectedForStage(stage) ==
    /\ Detected
    /\ ~IsNone(call.interrupt_value)
    /\ Val(call.interrupt_value) \in StagePayloads(stage)
    /\ call.next_node \in {Some(stage), Some("process_meal"), None}

\* C36: for each payload the three suspending stages pass to interrupt(),
\* detect_interrupt returns the stage's event type (meal_options,
\* ingredient_review, reminders_prompt) when the next-stage name is the
\* stage's own name, process_meal, or absent
C36_StagePayloadsClassified ==
    \A stage \in SuspendingStages :
        DetectedForStage(stage) =>
            /\ Val(result).interrupt_type = StageEventType(stage)
            /\ Val(result).event_name = StageEventType(stage)

\* the payload of review_ingredients, reported with the sub-graph node
\* process_meal as next stage, was classified as ingredient_review
C36_Witness ==
    /\ DetectedForStage("review_ingredients")
    /\ call.next_node = Some("process_meal")
    /\ Val(result).interrupt_type = "ingredient_review"
    /\ Val(result).event_data.ingredients = <<Egg, Milk>>

\* refine_search was called and has returned
Refined == call.op = "refine_search" /\ ~IsNone(result)

\* the candidates before and after the call
Previous == Val(call.state.meal_options)
Refreshed == Val(Val(result).meal_options)

\* the URL is that of a candidate the state held before the call
WasValid(url) == \E k \in 1..Len(Previous) : Previous[k].recipe_url = url

\* the candidate is the first with its URL among the previous candidates,
\* or, when none of them has the URL, among the recipes newly found
FirstOccurrence(option) ==
    IF WasValid(option.recipe_url)
    THEN \E k \in 1..Len(Previous) :
            /\ Previous[k].recipe_url = option.recipe_url
            /\ Previous[k].name = option.name
            /\ \A j \in 1..(k - 1) : Previous[j].recipe_url # option.recipe_url
    ELSE \E k \in 1..Len(call.recipes) :
            /\ call.recipes[k].url = option.recipe_url
            /\ call.recipes[k].name = option.name
            /\ \A j \in 1..(k - 1) : call.recipes[j].url # option.recipe_url

\* C37: after refine_search the candidate list has at most 5 entries, their
\* source URLs are non-empty and pairwise distinct, their ordinals are 1..N in
\* list order, each entry is the first occurrence of its URL, the previously
\* held candidates come before the newly found ones, and refine_dishes is
\* cleared
C37_RefineKeepsListWellFormed ==
    Refined =>
        /\ Len(Refreshed) <= 5
        /\ \A i \in 1..Len(Refreshed) :
              /\ Refreshed[i].id = i
              /\ Refreshed[i].recipe_url # <<>>
              /\ FirstOccurrence(Refreshed[i])
        /\ \A i, j \in 1..Len(Refreshed) :
              i < j =>
                 /\ Refreshed[i].recipe_url # Refreshed[j].recipe_url
                 /\ WasValid(Refreshed[j].recipe_url) => WasValid(Refreshed[i].recipe_url)
        /\ IsNone(Val(result).refine_dishes)

\* with the candidates d, e and a held and b, a, c newly found, refine_search
\* left the five candidates d, e, a, b, c, numbered 1 to 5, a being the one
\* held before
C37_Witness ==
    /\ Refined
    /\ Len(Previous) = 3
    /\ Len(call.recipes) = 3
    /\ Len(Refreshed) = 5
    /\ [i \in 1..5 |-> Refreshed[i].recipe_url]
          = << <<"d">>, <<"e">>, <<"a">>, <<"b">>, <<"c">> >>
    /\ Refreshed[3].name = <<"o","a">>
    /\ Refreshed[5].id = 5

\* C39: for every next-stage name and every payload, detect_interrupt returns
\* the event the classification inlined in stream_graph_execution builds: the
\* same event name and the same event data
C39_InlineAgreesWithRegistry ==
    Detected =>
        /\ Val(result).event_name
              = InlineEvent(call.next_node, call.interrupt_value).event_name
        /\ Val(result).event_data
              = InlineEvent(call.next_node, call.interrupt_value).event_data

\* the existing_lists of the suspension payload the session's
\* reminders_prompt showed
ShownLists(sid) == Val(Val(Checkpoint(sid)).intr).existing_lists

\* C40: when the commit stage is resumed with a decimal number and returns,
\* the destination is resolved against the list names that were emitted in
\* the suspension payload: the number k selects the k-th name that was
\* shown, and a number beyond the shown names is the literal list name
C40_NumberSelectsShownList ==
    [][\A i \in Slots :
          /\ CommitStep(i)
          /\ Val(execs[i]).pending
          /\ IsDecimal(Strip(Val(Val(execs[i]).resume)))
          /\ ~IsNone(execs'[i])
          => Val(execs'[i]).state.h_list =
                Some(ExpectedList(Val(Val(execs[i]).resume), ShownLists(Val(execs[i]).sid)))]_vars

====
